---- MODULE Spec2Model ----
(***************************************************************************)
(* tracing-viewer: the log parser and module tree (src/src/log_parser.rs)  *)
(* and the application state with its filter cache and viewport engine     *)
(* (src/src/ui.rs).                                                        *)
(*                                                                         *)
(* Representation of Rust values                                           *)
(*   String            a sequence of tokens.  A token is an atom of text:  *)
(*                     a word (a maximal run of \w characters, "a",        *)
(*                     "INFO"), one colon ":", one space " ", a line feed  *)
(*                     "\n", a timestamp literal "TS", or "!" (a character *)
(*                     that is neither \w, ':' nor white space).           *)
(*   ModuleTree        a function from the paths of its nodes (sequences   *)
(*                     of segments, <<>> the root) to the node's           *)
(*                     is_selected flag; the children map of a node is the *)
(*                     set of paths one segment longer.                    *)
(*   u64 fingerprint   the stream of values written into the hasher;       *)
(*                     DefaultHasher::finish is taken to be injective on   *)
(*                     streams.                                            *)
(*   usize             a natural number; saturating_sub is SatSub.         *)
(***************************************************************************)
EXTENDS Integers, Sequences, FiniteSets, TLC

VARIABLES
    app,        \* the App object (ui.rs:12-36), a record of its fields
    panicked,   \* TRUE once an operation has panicked (index out of bounds)
    filter_run, \* path the latest filter_logs call took: "none" (no call since
                \* the entries were appended to), "full", "skip", or "refilter"
                \* (the full path again, with a call already made)
    tree,       \* a ModuleTree driven directly through its own methods
    treeCall,   \* the latest call on tree: <<method, module_path>>
    treePrev,   \* tree as it was before that call
    treeHist,   \* <<the call before the latest one, tree before that call>>
    fsA,        \* a filter state: [module_tree, log_level_filter]
    fsB,        \* a second filter state over the same entry list
    fsLogs,     \* the entry list the two filter states are applied to
    content,    \* parse_multiline_logs: the input lines
    pIndex,     \* parse_multiline_logs: number of lines consumed
    entries,    \* parse_multiline_logs: the entries pushed so far
    current_entry, \* parse_multiline_logs: Option<LogEntry>, <<>> is None
    pc,         \* parse_multiline_logs: "loop" or "done"
    input,      \* main: "file" (--input names a file that exists), "missing"
                \* (it names no file) or "stdin" (no --input)
    file,       \* the bytes of the input file, a String
    writes,     \* number of writes the writer has made to the file or stdin
    notes,      \* watch_file: notify events queued on rx and not yet received
    mainPc,     \* main: "start", "setup", "spawn", "loop", "cleanup",
                \* "exited" (process::exit) or "failed" (main returned Err)
    terminal,   \* "cooked", or "raw" (raw mode and the alternate screen)
    watchPc,    \* watch_file task: "unspawned", "init", "opened" (the
                \* watcher is registered), "wait" (in select), "stat",
                \* "done" (Ok), "failed" (Err) or "killed" (process exit)
    last_size,  \* watch_file: the remembered length
    current_size, \* watch_file: the length the latest metadata() returned
    stdinPc,    \* stdin task: "unspawned", "blocked" (in lines().next()),
                \* "done" or "killed"
    chan,       \* the lines sent on log_sender and not yet received
    pending_logs, \* main: the lines received and not yet parsed
    cancelled,  \* cancellation_token.is_cancelled()
    sent,       \* every line sent on log_sender so far, in order
    base,       \* the length watch_file remembered first
    truncated,  \* TRUE once the writer has truncated the file
    handed,     \* the latest batch handed to the App: [raw, entries]
    shrunk      \* TRUE from a shrink event of watch_file to its next growth
                \* event

vars == <<app, panicked, filter_run, tree, treeCall, treePrev, treeHist,
          fsA, fsB, fsLogs,
          content, pIndex, entries, current_entry, pc,
          input, file, writes, notes, mainPc, terminal, watchPc, last_size,
          current_size, stdinPc, chan, pending_logs, cancelled, sent, base,
          truncated, handed, shrunk>>

appVars   == <<app, panicked, filter_run>>
treeVars  == <<tree, treeCall, treePrev, treeHist>>
fsVars    == <<fsA, fsB, fsLogs>>
parseVars == <<content, pIndex, entries, current_entry, pc>>
pipeVars  == <<input, file, writes, notes, mainPc, terminal, watchPc, last_size,
               current_size, stdinPc, chan, pending_logs, cancelled, sent, base,
               truncated, handed, shrunk>>

----------------------------------------------------------------------------
(* Bounds of the model *)

\* longest entry list the filter operations are driven to
MaxLogs == 2

\* longest entry list the viewport operations are driven to
MaxViewLogs == 3

\* largest viewport height (visible_lines) and scroll amount handed in
MaxHeight == 4

\* longest input handed to parse_multiline_logs
MaxContent == 3

----------------------------------------------------------------------------
(* usize helpers *)

Min(a, b) == IF a < b THEN a ELSE b

Max(a, b) == IF a > b THEN a ELSE b

SatSub(a, b) == IF a > b THEN a - b ELSE 0

RECURSIVE SumSeq(_)
SumSeq(s) == IF s = <<>> THEN 0 ELSE Head(s) + SumSeq(Tail(s))

Last(s) == s[Len(s)]

Take(s, n) == SubSeq(s, 1, Min(n, Len(s)))

----------------------------------------------------------------------------
(* Strings: byte order of the tokens, and the order of strings built on it *)

TokenRank(t) ==
    CASE t = "\n"    -> 0
      [] t = " "     -> 1
      [] t = "!"     -> 2
      [] t = ":"     -> 3
      [] t = "DEBUG" -> 4
      [] t = "ERROR" -> 5
      [] t = "INFO"  -> 6
      [] t = "TRACE" -> 7
      [] t = "TS"    -> 8
      [] t = "WARN"  -> 9
      [] t = "a"     -> 10
      [] t = "b"     -> 11
      [] t = "c"     -> 12
      [] t = "root"  -> 13
      [] OTHER       -> 14

RECURSIVE StrLess(_, _)
StrLess(x, y) ==
    IF y = <<>> THEN FALSE
    ELSE IF x = <<>> THEN TRUE
    ELSE IF Head(x) = Head(y) THEN StrLess(Tail(x), Tail(y))
    ELSE TokenRank(Head(x)) < TokenRank(Head(y))

RECURSIVE SortStrs(_)
SortStrs(S) ==
    IF S = {} THEN <<>>
    ELSE LET m == CHOOSE x \in S : \A y \in S \ {x} : StrLess(x, y)
         IN  <<m>> \o SortStrs(S \ {m})

\* str::split("::"): non-overlapping matches taken from the left
RECURSIVE SplitFrom(_, _, _)
SplitFrom(s, i, cur) ==
    IF i > Len(s) THEN <<cur>>
    ELSE IF i < Len(s) /\ s[i] = ":" /\ s[i + 1] = ":"
         THEN <<cur>> \o SplitFrom(s, i + 2, <<>>)
         ELSE SplitFrom(s, i + 1, Append(cur, s[i]))

Split(s) == SplitFrom(s, 1, <<>>)

\* format!("{}::{}", prefix, name)
JoinPath(prefix, name) == prefix \o <<":", ":">> \o name

----------------------------------------------------------------------------
(* ModuleTree (log_parser.rs:15-105) *)

\* ModuleTree::new: a node without children, selected
ModuleTreeNew == [p \in {<<>>} |-> TRUE]

\* the name field of the node at path p; the root is built with "root"
NodeName(p) == IF p = <<>> THEN <<"root">> ELSE Last(p)

\* children.contains_key(k) / children.get(k) of the node at path p
HasChild(t, p, k) == Append(p, k) \in DOMAIN t

\* children.keys() of the node at path p
ChildKeys(t, p) ==
    { q[Len(q)] : q \in { r \in DOMAIN t : /\ Len(r) = Len(p) + 1
                                           /\ SubSeq(r, 1, Len(p)) = p } }

\* children.entry(part).or_insert_with(|| ModuleTree::new(part))
AddChild(t, p, k) ==
    [q \in DOMAIN t \cup {Append(p, k)} |->
        IF q = Append(p, k) THEN TRUE ELSE t[q]]

\* an insertion that stores a fresh node at every segment, present or not
RECURSIVE InsertPartsOverwrites(_, _, _, _)
InsertPartsOverwrites(t, parts, i, current) ==
    IF i > Len(parts) THEN t
    ELSE InsertPartsOverwrites(AddChild(t, current, parts[i]), parts, i + 1,
                               Append(current, parts[i]))

RECURSIVE InsertParts(_, _, _, _)
InsertParts(t, parts, i, current) ==
    IF i > Len(parts) THEN t
    ELSE LET t1 == IF ~HasChild(t, current, parts[i])
                   THEN AddChild(t, current, parts[i])
                   ELSE t
         IN  InsertParts(t1, parts, i + 1, Append(current, parts[i]))

insert_module(t, module_path) == InsertParts(t, Split(module_path), 1, <<>>)

\* a walk that gives up at a deselected ancestor
RECURSIVE SelectedWalkThroughSelected(_, _, _, _)
SelectedWalkThroughSelected(t, parts, i, current) ==
    IF i > Len(parts) THEN t[current]
    ELSE IF HasChild(t, current, parts[i]) /\ t[Append(current, parts[i])]
         THEN SelectedWalkThroughSelected(t, parts, i + 1,
                                          Append(current, parts[i]))
         ELSE FALSE

RECURSIVE SelectedWalk(_, _, _, _)
SelectedWalk(t, parts, i, current) ==
    IF i > Len(parts) THEN t[current]
    ELSE IF HasChild(t, current, parts[i])
         THEN SelectedWalk(t, parts, i + 1, Append(current, parts[i]))
         ELSE FALSE

is_module_selected(t, module_path) ==
    SelectedWalk(t, Split(module_path), 1, <<>>)

\* a propagation that stops at the node itself
PropagateToSelfOnly(t, p, selected) == [t EXCEPT ![p] = selected]

RECURSIVE propagate_selection_to_children(_, _, _)
RECURSIVE PropagateOver(_, _, _, _)
propagate_selection_to_children(t, p, selected) ==
    PropagateOver([t EXCEPT ![p] = selected], p, ChildKeys(t, p), selected)

\* for child in self.children.values_mut() { child.propagate...(selected) }
PropagateOver(t, p, keys, selected) ==
    IF keys = {} THEN t
    ELSE LET k == CHOOSE x \in keys : TRUE
         IN  PropagateOver(
                 propagate_selection_to_children(t, Append(p, k), selected),
                 p, keys \ {k}, selected)

\* a toggle that also flips every node it walks through
RECURSIVE ToggleAlongPath(_, _, _, _)
ToggleAlongPath(t, parts, i, current) ==
    IF i > Len(parts)
    THEN LET t1 == [t EXCEPT ![current] = ~t[current]]
         IN  propagate_selection_to_children(t1, current, t1[current])
    ELSE IF HasChild(t, current, parts[i])
         THEN ToggleAlongPath([t EXCEPT ![current] = ~t[current]], parts,
                              i + 1, Append(current, parts[i]))
         ELSE t

\* a toggle that deselects the node whatever its flag was
RECURSIVE ToggleOnlyDeselects(_, _, _, _)
ToggleOnlyDeselects(t, parts, i, current) ==
    IF i > Len(parts)
    THEN propagate_selection_to_children(t, current, FALSE)
    ELSE IF HasChild(t, current, parts[i])
         THEN ToggleOnlyDeselects(t, parts, i + 1, Append(current, parts[i]))
         ELSE t

RECURSIVE toggle_selection_recursive(_, _, _, _)
toggle_selection_recursive(t, parts, i, current) ==
    IF i > Len(parts)
    THEN LET t1 == [t EXCEPT ![current] = ~t[current]]
         IN  propagate_selection_to_children(t1, current, t1[current])
    ELSE IF HasChild(t, current, parts[i])
         THEN toggle_selection_recursive(t, parts, i + 1,
                                         Append(current, parts[i]))
         ELSE t

\* a toggle that creates the missing nodes of the path before toggling
ToggleInsertsMissing(t, module_path) ==
    toggle_selection_recursive(insert_module(t, module_path),
                               Split(module_path), 1, <<>>)

toggle_selection(t, module_path) ==
    toggle_selection_recursive(t, Split(module_path), 1, <<>>)

select_all(t) == propagate_selection_to_children(t, <<>>, TRUE)

deselect_all(t) == propagate_selection_to_children(t, <<>>, FALSE)

\* a flag hashed as the same byte whatever its value
HashBoolConstant(b) == <<"<1>">>

\* bool::hash writes one byte, 1 or 0
HashBool(b) == IF b THEN <<"<1>">> ELSE <<"<0>">>

\* impl Hash for ModuleTree: the values written into the hasher, in order
RECURSIVE HashTree(_, _)
RECURSIVE HashChildren(_, _, _)
HashTree(t, p) ==
    <<NodeName(p), HashBool(t[p])>>
        \o HashChildren(t, p, SortStrs(ChildKeys(t, p)))

\* for key in keys { key.hash(state); self.children[key].hash(state); }
HashChildren(t, p, keys) ==
    IF keys = <<>> THEN <<>>
    ELSE <<Head(keys)>> \o HashTree(t, Append(p, Head(keys)))
             \o HashChildren(t, p, Tail(keys))

----------------------------------------------------------------------------
(* LogParser (log_parser.rs:107-167) *)

\* str::lines(): split at line feeds; a final empty line is not a line
RECURSIVE LinesFrom(_, _, _)
LinesFrom(s, i, cur) ==
    IF i > Len(s) THEN (IF cur = <<>> THEN <<>> ELSE <<cur>>)
    ELSE IF s[i] = "\n" THEN <<cur>> \o LinesFrom(s, i + 1, <<>>)
         ELSE LinesFrom(s, i + 1, Append(cur, s[i]))

StrLines(s) == LinesFrom(s, 1, <<>>)

\* the character class of a token, as tracing_regex sees it:
\* "ts" matches \d{4}-\d{2}-\d{2}T\d{2}:\d{2}:\d{2}\.\d+Z?, "ws" matches \s,
\* "word" matches \w+, "colon" is ':', "other" matches none of them
TokenClass(t) ==
    CASE t = "TS" -> "ts"
      [] t = " "  -> "ws"
      [] t = ":"  -> "colon"
      [] t \in {"!", "\n"} -> "other"
      [] OTHER    -> "word"

\* the first index >= i whose token is not of a class in cls (Len + 1 at the end)
RECURSIVE RunEnd(_, _, _)
RunEnd(line, i, cls) ==
    IF i > Len(line) \/ TokenClass(line[i]) \notin cls THEN i
    ELSE RunEnd(line, i + 1, cls)

\* the indices of one match of tracing_regex that starts at token i:
\* timestamp \s+ level \s+ target ':' \s* message.  [\w:]+ is greedy, so the
\* target ends before the last colon of the run of words and colons.
MatchAt(line, i) ==
    LET lvl    == RunEnd(line, i + 1, {"ws"})
        lvlEnd == RunEnd(line, lvl, {"word"})
        tgt    == RunEnd(line, lvlEnd, {"ws"})
        runEnd == RunEnd(line, tgt, {"word", "colon"})
        colons == { j \in (tgt + 1)..(runEnd - 1) : line[j] = ":" }
        colon  == CHOOSE j \in colons : \A k \in colons : k <= j
        msg    == RunEnd(line, colon + 1, {"ws"})
    IN  [ok |-> /\ i <= Len(line)
                /\ TokenClass(line[i]) = "ts"
                /\ lvl > i + 1
                /\ lvlEnd > lvl
                /\ tgt > lvlEnd
                /\ colons # {},
         level |-> [from |-> lvl, to |-> lvlEnd - 1],
         target |-> [from |-> tgt,
                     to |-> IF colons = {} THEN tgt ELSE colon - 1],
         message |-> IF colons = {} THEN tgt ELSE msg]

\* Regex::captures is an unanchored search: the leftmost match is taken.
\* None is <<>>, Some(entry) is <<entry>>.
parse_line(line) ==
    LET starts == { i \in 1..Len(line) : MatchAt(line, i).ok }
        first  == CHOOSE i \in starts : \A k \in starts : i <= k
        m      == MatchAt(line, first)
    IN  IF starts = {} THEN <<>>
        ELSE << [timestamp |-> <<line[first]>>,
                 level     |-> SubSeq(line, m.level.from, m.level.to),
                 target    |-> SubSeq(line, m.target.from, m.target.to),
                 message   |-> SubSeq(line, m.message, Len(line))] >>

\* line.trim().is_empty()
IsBlank(line) == \A i \in 1..Len(line) : TokenClass(line[i]) = "ws"

\* the loop body without the blank-line test: every non-matching line is
\* appended
ParseLoopStepAppendsBlank(st, line) ==
    IF parse_line(line) # <<>>
    THEN [entries |-> IF st.current_entry # <<>>
                      THEN Append(st.entries, st.current_entry[1])
                      ELSE st.entries,
          current_entry |-> parse_line(line)]
    ELSE IF st.current_entry # <<>>
         THEN [st EXCEPT !.current_entry =
                   << [st.current_entry[1] EXCEPT
                          !.message = st.current_entry[1].message
                                          \o <<"\n">> \o line] >>]
         ELSE st

\* one iteration of the loop of parse_multiline_logs over st = [entries,
\* current_entry]
ParseLoopStep(st, line) ==
    IF parse_line(line) # <<>>
    THEN [entries |-> IF st.current_entry # <<>>
                      THEN Append(st.entries, st.current_entry[1])
                      ELSE st.entries,
          current_entry |-> parse_line(line)]
    ELSE IF st.current_entry # <<>> /\ ~IsBlank(line)
         THEN [st EXCEPT !.current_entry =
                   << [st.current_entry[1] EXCEPT
                          !.message = st.current_entry[1].message
                                          \o <<"\n">> \o line] >>]
         ELSE st

\* the loop left without the push of the last entry
ParseLoopEndNoPush(st) == st.entries

\* the code after the loop: the last entry is pushed
ParseLoopEnd(st) ==
    IF st.current_entry # <<>>
    THEN Append(st.entries, st.current_entry[1])
    ELSE st.entries

RECURSIVE ParseLoop(_, _)
ParseLoop(st, lines) ==
    IF lines = <<>> THEN st
    ELSE ParseLoop(ParseLoopStep(st, Head(lines)), Tail(lines))

parse_multiline_logs(text) ==
    ParseLoopEnd(ParseLoop([entries |-> <<>>, current_entry |-> <<>>],
                           StrLines(text)))

----------------------------------------------------------------------------
(* App: construction, module items, filter cache (ui.rs:54-80, 203-377) *)

\* the five severity levels App::new puts into log_level_filter
AllLevels == { <<"ERROR">>, <<"WARN">>, <<"INFO">>, <<"DEBUG">>, <<"TRACE">> }

\* App::new.  Option<usize> is <<>> for None and <<n>> for Some(n);
\* last_filter_hash starts at 0, which no fingerprint stream equals: <<>>.
AppNew ==
    [ module_tree                |-> ModuleTreeNew,
      logs                       |-> <<>>,
      filtered_logs              |-> <<>>,
      log_scroll_position        |-> 0,
      module_list_state          |-> <<0>>,
      module_items               |-> <<>>,
      current_log_line           |-> 0,
      selection_start            |-> <<>>,
      selection_end              |-> <<>>,
      mode                       |-> "ModuleSelection",
      auto_follow                |-> TRUE,
      filter_dirty               |-> TRUE,
      last_filter_hash           |-> <<>>,
      log_level_filter           |-> AllLevels,
      show_filter_panel          |-> TRUE,
      last_action_was_focus_move |-> FALSE,
      should_quit                |-> FALSE,
      copy_message               |-> <<>>,
      selected_log_level_index   |-> 0 ]

calculate_display_lines(entry) == Len(StrLines(entry.message))

\* the display line counts of the filtered entries, in order
DisplayLines(a) ==
    [i \in 1..Len(a.filtered_logs) |->
        calculate_display_lines(a.filtered_logs[i])]

\* filtered_logs.iter().map(calculate_display_lines).sum()
TotalDisplayLines(a) == SumSeq(DisplayLines(a))

get_entry_display_position(a, entry_index) ==
    SumSeq(Take(DisplayLines(a), entry_index))

RECURSIVE build_module_items_recursive(_, _, _, _)
RECURSIVE BuildOver(_, _, _, _, _)
build_module_items_recursive(t, p, path_prefix, level) ==
    IF level > 0
    THEN LET full_path == IF path_prefix = <<>> THEN NodeName(p)
                          ELSE JoinPath(path_prefix, NodeName(p))
         IN  << [name        |-> NodeName(p),
                 full_path   |-> full_path,
                 level       |-> level,
                 is_selected |-> t[p]] >>
               \o BuildOver(t, p, SortStrs(ChildKeys(t, p)), full_path, level + 1)
    ELSE BuildOver(t, p, SortStrs(ChildKeys(t, p)), path_prefix, level + 1)

\* for (_, child) in sorted_children { build_module_items_recursive(child, ..) }
BuildOver(t, p, keys, path_prefix, level) ==
    IF keys = <<>> THEN <<>>
    ELSE build_module_items_recursive(t, Append(p, Head(keys)), path_prefix, level)
           \o BuildOver(t, p, Tail(keys), path_prefix, level)

rebuild_module_items(a) ==
    [a EXCEPT !.module_items =
        build_module_items_recursive(a.module_tree, <<>>, <<>>, 0)]

\* for log in logs { tree.insert_module(&log.target) }
RECURSIVE InsertAll(_, _)
InsertAll(t, logs) ==
    IF logs = <<>> THEN t
    ELSE InsertAll(insert_module(t, Head(logs).target), Tail(logs))

rebuild_module_tree(a) ==
    rebuild_module_items(
        [a EXCEPT !.module_tree = InsertAll(ModuleTreeNew, a.logs)])

\* a fingerprint of the module tree alone
HashWithoutLevels(a) == HashTree(a.module_tree, <<>>)

calculate_filter_hash(a) ==
    HashTree(a.module_tree, <<>>) \o SortStrs(a.log_level_filter)

\* the closure handed to filter() in filter_logs and in add_logs
PassesFilter(a, log) ==
    /\ is_module_selected(a.module_tree, log.target)
    /\ log.level \in a.log_level_filter

\* whether filter_logs returns early
FilterSkips(a) ==
    ~a.filter_dirty /\ calculate_filter_hash(a) = a.last_filter_hash

\* filter_logs that does not remember the fingerprint it filtered under
FilterLogsForgetsHash(a) ==
    IF FilterSkips(a) THEN a
    ELSE [a EXCEPT !.filtered_logs =
                       SelectSeq(a.logs, LAMBDA log : PassesFilter(a, log)),
                   !.filter_dirty = FALSE]

filter_logs(a) ==
    IF FilterSkips(a) THEN a
    ELSE [a EXCEPT !.filtered_logs =
                       SelectSeq(a.logs, LAMBDA log : PassesFilter(a, log)),
                   !.filter_dirty = FALSE,
                   !.last_filter_hash = calculate_filter_hash(a)]

\* scroll_to_bottom that scrolls and leaves the focus where it was
ScrollToBottomKeepsFocus(a) ==
    IF a.filtered_logs # <<>>
    THEN [a EXCEPT !.log_scroll_position = SatSub(TotalDisplayLines(a), 1),
                   !.auto_follow = TRUE]
    ELSE a

scroll_to_bottom(a) ==
    IF a.filtered_logs # <<>>
    THEN [a EXCEPT !.current_log_line = Len(a.filtered_logs) - 1,
                   !.log_scroll_position = SatSub(TotalDisplayLines(a), 1),
                   !.auto_follow = TRUE]
    ELSE a

update_logs(a, logs) ==
    LET old_log_count == Len(a.filtered_logs)
        a1 == rebuild_module_tree([a EXCEPT !.logs = logs])
        a2 == filter_logs([a1 EXCEPT !.filter_dirty = TRUE])
    IN  IF a2.auto_follow /\ Len(a2.filtered_logs) > old_log_count
        THEN scroll_to_bottom(a2)
        ELSE a2

\* add_logs that filters the new entries by module only
AddLogsIgnoresLevels(a, new_logs) ==
    LET old_log_count == Len(a.filtered_logs)
        a1 == [a EXCEPT !.logs = a.logs \o new_logs,
                        !.module_tree = InsertAll(a.module_tree, new_logs)]
        a2 == rebuild_module_items(a1)
        new_filtered_logs ==
            SelectSeq(new_logs,
                      LAMBDA log : is_module_selected(a2.module_tree, log.target))
        a3 == [a2 EXCEPT !.filtered_logs = a2.filtered_logs \o new_filtered_logs]
    IN  IF Len(new_logs) = 0 THEN a
        ELSE IF a3.auto_follow /\ Len(a3.filtered_logs) > old_log_count
             THEN scroll_to_bottom(a3)
             ELSE a3

\* add_logs that builds the module tree again from all the entries
AddLogsRebuildsTree(a, new_logs) ==
    LET old_log_count == Len(a.filtered_logs)
        a1 == [a EXCEPT !.logs = a.logs \o new_logs,
                        !.module_tree =
                            InsertAll(ModuleTreeNew, a.logs \o new_logs)]
        a2 == rebuild_module_items(a1)
        new_filtered_logs ==
            SelectSeq(new_logs, LAMBDA log : PassesFilter(a2, log))
        a3 == [a2 EXCEPT !.filtered_logs = a2.filtered_logs \o new_filtered_logs]
    IN  IF Len(new_logs) = 0 THEN a
        ELSE IF a3.auto_follow /\ Len(a3.filtered_logs) > old_log_count
             THEN scroll_to_bottom(a3)
             ELSE a3

\* add_logs that keeps the new filtered entries in place of the cached list
AddLogsReplacesFiltered(a, new_logs) ==
    LET old_log_count == Len(a.filtered_logs)
        a1 == [a EXCEPT !.logs = a.logs \o new_logs,
                        !.module_tree = InsertAll(a.module_tree, new_logs)]
        a2 == rebuild_module_items(a1)
        new_filtered_logs ==
            SelectSeq(new_logs, LAMBDA log : PassesFilter(a2, log))
        a3 == [a2 EXCEPT !.filtered_logs = new_filtered_logs]
    IN  IF Len(new_logs) = 0 THEN a
        ELSE IF a3.auto_follow /\ Len(a3.filtered_logs) > old_log_count
             THEN scroll_to_bottom(a3)
             ELSE a3

add_logs(a, new_logs) ==
    LET old_log_count == Len(a.filtered_logs)
        a1 == [a EXCEPT !.logs = a.logs \o new_logs,
                        !.module_tree = InsertAll(a.module_tree, new_logs)]
        a2 == rebuild_module_items(a1)
        new_filtered_logs ==
            SelectSeq(new_logs, LAMBDA log : PassesFilter(a2, log))
        a3 == [a2 EXCEPT !.filtered_logs = a2.filtered_logs \o new_filtered_logs]
    IN  IF Len(new_logs) = 0 THEN a
        ELSE IF a3.auto_follow /\ Len(a3.filtered_logs) > old_log_count
             THEN scroll_to_bottom(a3)
             ELSE a3

toggle_selected_module(a) ==
    IF /\ a.module_list_state # <<>>
       /\ a.module_list_state[1] < Len(a.module_items)
    THEN LET module_path == a.module_items[a.module_list_state[1] + 1].full_path
             a1 == [a EXCEPT !.module_tree =
                                 toggle_selection(a.module_tree, module_path)]
             a2 == rebuild_module_items(a1)
         IN  filter_logs([a2 EXCEPT !.filter_dirty = TRUE])
    ELSE a

\* module_list_state.selected().unwrap_or(0)
SelectedOrZero(a) ==
    IF a.module_list_state = <<>> THEN 0 ELSE a.module_list_state[1]

next_module(a) ==
    IF a.module_items # <<>>
    THEN [a EXCEPT !.module_list_state =
                       <<(SelectedOrZero(a) + 1) % Len(a.module_items)>>]
    ELSE a

previous_module(a) ==
    IF a.module_items # <<>>
    THEN [a EXCEPT !.module_list_state =
                       <<IF SelectedOrZero(a) = 0 THEN Len(a.module_items) - 1
                         ELSE SelectedOrZero(a) - 1>>]
    ELSE a

toggle_log_level(a, level) ==
    LET a1 == [a EXCEPT !.log_level_filter =
                            IF level \in a.log_level_filter
                            THEN a.log_level_filter \ {level}
                            ELSE a.log_level_filter \cup {level}]
    IN  filter_logs([a1 EXCEPT !.filter_dirty = TRUE])

select_all_modules(a) ==
    LET a1 == [a EXCEPT !.module_tree = select_all(a.module_tree)]
    IN  filter_logs([rebuild_module_items(a1) EXCEPT !.filter_dirty = TRUE])

deselect_all_modules(a) ==
    LET a1 == [a EXCEPT !.module_tree = deselect_all(a.module_tree)]
    IN  filter_logs([rebuild_module_items(a1) EXCEPT !.filter_dirty = TRUE])

----------------------------------------------------------------------------
(* App: modes, focus, scrolling, viewport (ui.rs:82-161, 403-523, 626-661) *)

switch_to_log_mode(a) ==
    [a EXCEPT !.mode = "LogNavigation", !.show_filter_panel = FALSE]

switch_to_module_mode(a) ==
    [a EXCEPT !.mode = "ModuleSelection", !.show_filter_panel = TRUE]

switch_to_log_level_mode(a) ==
    [a EXCEPT !.mode = "LogLevelFilter", !.show_filter_panel = TRUE]

start_text_selection(a) ==
    [a EXCEPT !.mode = "TextSelection",
              !.selection_start = <<a.current_log_line>>,
              !.selection_end = <<a.current_log_line>>]

\* clear_selection that leaves the mode and keeps the two ends
ClearSelectionKeepsRange(a) ==
    [a EXCEPT !.mode = "LogNavigation", !.copy_message = <<>>]

clear_selection(a) ==
    [a EXCEPT !.selection_start = <<>>,
              !.selection_end = <<>>,
              !.mode = "LogNavigation",
              !.copy_message = <<>>]

\* if self.mode == AppMode::TextSelection { selection_end = Some(current_log_line) }
ExtendSelection(a) ==
    IF a.mode = "TextSelection"
    THEN [a EXCEPT !.selection_end = <<a.current_log_line>>]
    ELSE a

\* next_log_entry without the clamp to the last entry
NextLogEntryUnclamped(a) ==
    IF a.filtered_logs # <<>>
    THEN ExtendSelection(
             [a EXCEPT !.current_log_line = a.current_log_line + 1,
                       !.auto_follow = FALSE,
                       !.last_action_was_focus_move = TRUE])
    ELSE a

next_log_entry(a) ==
    IF a.filtered_logs # <<>>
    THEN LET old_line == a.current_log_line
             new_line == Min(a.current_log_line + 1, Len(a.filtered_logs) - 1)
         IN  ExtendSelection(
                 [a EXCEPT !.current_log_line = new_line,
                           !.auto_follow =
                               IF new_line = Len(a.filtered_logs) - 1 THEN TRUE
                               ELSE IF old_line # new_line THEN FALSE
                               ELSE a.auto_follow,
                           !.last_action_was_focus_move = TRUE])
    ELSE a

previous_log_entry(a) ==
    IF a.current_log_line > 0
    THEN ExtendSelection(
             [a EXCEPT !.current_log_line = a.current_log_line - 1,
                       !.auto_follow = FALSE,
                       !.last_action_was_focus_move = TRUE])
    ELSE a

scroll_down(a, lines) ==
    IF a.filtered_logs # <<>>
    THEN LET max_scroll == SatSub(TotalDisplayLines(a), 1)
         IN  [a EXCEPT !.log_scroll_position =
                           Min(a.log_scroll_position + lines, max_scroll),
                       !.auto_follow = FALSE,
                       !.last_action_was_focus_move = FALSE]
    ELSE a

scroll_up(a, lines) ==
    [a EXCEPT !.log_scroll_position = SatSub(a.log_scroll_position, lines),
              !.auto_follow = FALSE,
              !.last_action_was_focus_move = FALSE]

page_up(a, visible_lines) ==
    LET scroll_amount == Max(SatSub(visible_lines, 1), 1)
    IN  ExtendSelection(
            [a EXCEPT !.log_scroll_position =
                          SatSub(a.log_scroll_position, scroll_amount),
                      !.auto_follow = FALSE,
                      !.last_action_was_focus_move = FALSE])

\* page_down that leaves auto_follow as it was
PageDownKeepsFollow(a, visible_lines) ==
    LET total_display_lines == TotalDisplayLines(a)
        scroll_amount == Max(SatSub(visible_lines, 1), 1)
        max_scroll == SatSub(total_display_lines,
                             Min(visible_lines, total_display_lines))
    IN  ExtendSelection(
            [a EXCEPT !.log_scroll_position =
                          Min(a.log_scroll_position + scroll_amount, max_scroll),
                      !.last_action_was_focus_move = FALSE])

page_down(a, visible_lines) ==
    LET total_display_lines == TotalDisplayLines(a)
        scroll_amount == Max(SatSub(visible_lines, 1), 1)
        max_scroll == SatSub(total_display_lines,
                             Min(visible_lines, total_display_lines))
    IN  ExtendSelection(
            [a EXCEPT !.log_scroll_position =
                          Min(a.log_scroll_position + scroll_amount, max_scroll),
                      !.auto_follow = FALSE,
                      !.last_action_was_focus_move = FALSE])

\* self.filtered_logs[self.current_log_line] with the index out of bounds:
\* both focus policies index the list before anything else
FocusIndexPanics(a) ==
    /\ a.filtered_logs # <<>>
    /\ a.current_log_line >= Len(a.filtered_logs)

\* next_entry_end - visible_lines cannot underflow: the branch is taken only
\* when next_entry_end > log_scroll_position + visible_lines
ensure_focus_visible_with_buffer(a, visible_lines) ==
    IF a.filtered_logs = <<>> THEN a
    ELSE
    LET cur == a.current_log_line
        len == Len(a.filtered_logs)
        focused_entry_start == get_entry_display_position(a, cur)
        focused_entry_end == focused_entry_start + DisplayLines(a)[cur + 1]
        scroll_end == a.log_scroll_position + visible_lines
        prev_entry_start == IF cur > 0
                            THEN get_entry_display_position(a, cur - 1)
                            ELSE focused_entry_start
        next_entry_end == IF cur < len - 1
                          THEN get_entry_display_position(a, cur + 1)
                                   + DisplayLines(a)[cur + 2]
                          ELSE focused_entry_end
        max_scroll == SatSub(TotalDisplayLines(a), visible_lines)
    IN  IF prev_entry_start < a.log_scroll_position /\ cur > 0
        THEN [a EXCEPT !.log_scroll_position = prev_entry_start]
        ELSE IF next_entry_end > scroll_end /\ cur < len - 1
             THEN [a EXCEPT !.log_scroll_position =
                                Min(next_entry_end - visible_lines, max_scroll)]
             ELSE a

\* a loop that keeps the first visible entry it meets
FirstVisibleEntry(a, visible_lines) ==
    LET scroll_end == a.log_scroll_position + visible_lines
        visible == { i \in 0..(Len(a.filtered_logs) - 1) :
                        /\ get_entry_display_position(a, i) < scroll_end
                        /\ get_entry_display_position(a, i) + DisplayLines(a)[i + 1]
                               > a.log_scroll_position }
    IN  IF visible = {} THEN a.current_log_line
        ELSE CHOOSE i \in visible : \A j \in visible : i <= j

\* the loop over the entries: the visible entry at the least index distance
\* from the focus, the first such entry in list order on a tie
BestVisibleEntry(a, visible_lines) ==
    LET cur == a.current_log_line
        scroll_end == a.log_scroll_position + visible_lines
        Dist(i) == IF i > cur THEN i - cur ELSE cur - i
        visible == { i \in 0..(Len(a.filtered_logs) - 1) :
                        /\ get_entry_display_position(a, i) < scroll_end
                        /\ get_entry_display_position(a, i) + DisplayLines(a)[i + 1]
                               > a.log_scroll_position }
    IN  IF visible = {} THEN cur
        ELSE CHOOSE i \in visible :
                 \A j \in visible : Dist(i) < Dist(j) \/ (Dist(i) = Dist(j) /\ i <= j)

adjust_focus_for_scroll_with_lines(a, visible_lines) ==
    IF a.filtered_logs = <<>> THEN a
    ELSE
    LET focused_entry_start == get_entry_display_position(a, a.current_log_line)
        focused_entry_end ==
            focused_entry_start + DisplayLines(a)[a.current_log_line + 1]
        scroll_end == a.log_scroll_position + visible_lines
    IN  IF \/ focused_entry_end <= a.log_scroll_position
           \/ focused_entry_start >= scroll_end
        THEN [a EXCEPT !.current_log_line = BestVisibleEntry(a, visible_lines)]
        ELSE a

update_focus_visibility_with_lines(a, visible_lines) ==
    IF a.filtered_logs = <<>> THEN a
    ELSE IF /\ a.last_action_was_focus_move
            /\ a.mode \in {"LogNavigation", "TextSelection"}
         THEN ensure_focus_visible_with_buffer(a, visible_lines)
         ELSE adjust_focus_for_scroll_with_lines(a, visible_lines)

update_scroll_position_with_height(a, visible_lines) ==
    IF visible_lines <= 2 \/ a.filtered_logs = <<>> THEN a
    ELSE LET max_scroll == SatSub(TotalDisplayLines(a), visible_lines)
         IN  update_focus_visibility_with_lines(
                 [a EXCEPT !.log_scroll_position =
                               Min(a.log_scroll_position, max_scroll)],
                 visible_lines)

\* whether update_scroll_position_with_height panics
ResizePanics(a, visible_lines) ==
    /\ visible_lines > 2
    /\ FocusIndexPanics(a)

----------------------------------------------------------------------------
(* Inputs *)

LineInfoA    == <<"TS", " ", "INFO", " ", "a", ":", " ", "c">>
LineErrorAB  == <<"TS", " ", "ERROR", " ", "a", ":", ":", "b", ":", " ", "c">>
LineInfoB    == <<"TS", " ", "INFO", " ", "b", ":">>
LinePrefixed == <<"!", " ", "TS", " ", "WARN", " ", ":", ":", "b", ":", "c", " ", "c">>
LineNoTarget == <<"TS", " ", "INFO", " ", ":", " ", "c">>
LineCont     == <<" ", "c">>
LineBlank    == <<" ">>

\* the lines handed to the parser
InputLines ==
    { LineInfoA, LineErrorAB, LineInfoB, LinePrefixed, LineNoTarget,
      LineCont, LineBlank, <<>> }

\* the entries handed to the application: one of one display line, one of
\* two (a continuation line folded in), one with an empty message
LogEntries ==
    { parse_multiline_logs(LineInfoA)[1],
      parse_multiline_logs(LineErrorAB \o <<"\n">> \o LineCont)[1],
      parse_multiline_logs(LineInfoB)[1] }

\* the entries the filter operations are driven with: two levels, a module
\* and a submodule of it
FilterEntries ==
    { parse_multiline_logs(LineInfoA)[1],
      parse_multiline_logs(LineErrorAB \o <<"\n">> \o LineCont)[1] }

\* the sequences over S of length at most n
SeqsUpTo(S, n) == UNION { [1..k -> S] : k \in 0..n }

\* the module paths a ModuleTree is driven with: the targets inserted, and
\* with them the paths asked for and toggled (the empty path, a path whose
\* prefix exists and whose last segment does not, an unknown path)
InsertPaths ==
    { <<"a">>, <<"a", ":", ":", "b">>, <<"b">>, <<":", ":", "b">> }

QueryPaths ==
    InsertPaths \cup { <<>>, <<"a", ":", ":", "c">>, <<"c">> }

\* the levels toggle_log_level is called with
LevelKeys == { <<"ERROR">>, <<"INFO">> }

----------------------------------------------------------------------------
(* The application driven through its operations *)

AppInit ==
    /\ app = AppNew
    /\ panicked = FALSE
    /\ filter_run = "none"

TreeIdle ==
    /\ tree = ModuleTreeNew
    /\ treeCall = <<"new", <<>>>>
    /\ treePrev = ModuleTreeNew
    /\ treeHist = <<<<"new", <<>>>>, ModuleTreeNew>>

FsIdle ==
    /\ fsA = [module_tree |-> ModuleTreeNew, log_level_filter |-> AllLevels]
    /\ fsB = [module_tree |-> ModuleTreeNew, log_level_filter |-> AllLevels]
    /\ fsLogs = <<>>

ParseIdle ==
    /\ content = <<>>
    /\ pIndex = 0
    /\ entries = <<>>
    /\ current_entry = <<>>
    /\ pc = "done"

\* no ingestion: main has not started
PipeIdle ==
    /\ input = "stdin"
    /\ file = <<>>
    /\ writes = 0
    /\ notes = 0
    /\ mainPc = "start"
    /\ terminal = "cooked"
    /\ watchPc = "unspawned"
    /\ last_size = 0
    /\ current_size = 0
    /\ stdinPc = "unspawned"
    /\ chan = <<>>
    /\ pending_logs = <<>>
    /\ cancelled = FALSE
    /\ sent = <<>>
    /\ base = 0
    /\ truncated = FALSE
    /\ handed = [raw |-> <<>>, entries |-> <<>>]
    /\ shrunk = FALSE

\* an operation that returns: the App is replaced by a2.  No operation runs
\* after a panic: every action is guarded by ~panicked.
Returns(a2, run) ==
    /\ app' = a2
    /\ filter_run' = run
    /\ UNCHANGED <<panicked, treeVars, fsVars, parseVars, pipeVars>>

\* an operation that panics: the process ends
Panics ==
    /\ panicked' = TRUE
    /\ UNCHANGED <<app, filter_run, treeVars, fsVars, parseVars, pipeVars>>

UpdateLogs ==
    \E logs \in SeqsUpTo(FilterEntries, MaxLogs) :
        /\ ~panicked
        /\ Returns(update_logs(app, logs), "full")

AddLogs ==
    \E new_logs \in SeqsUpTo(FilterEntries, MaxLogs) :
        /\ ~panicked
        /\ Len(app.logs) + Len(new_logs) <= MaxLogs
        /\ Returns(add_logs(app, new_logs),
                   IF new_logs = <<>> THEN filter_run ELSE "none")

\* add_logs as the viewport sees it: entries of zero, one and two display lines
AppendLogs ==
    \E new_logs \in SeqsUpTo(LogEntries, MaxViewLogs) :
        /\ ~panicked
        /\ Len(app.logs) + Len(new_logs) <= MaxViewLogs
        /\ Returns(add_logs(app, new_logs),
                   IF new_logs = <<>> THEN filter_run ELSE "none")

FilterLogs ==
    /\ ~panicked
    /\ Returns(filter_logs(app),
               IF FilterSkips(app) THEN "skip"
               ELSE IF filter_run = "none" THEN "full" ELSE "refilter")

ToggleSelectedModule ==
    /\ ~panicked
    /\ Returns(toggle_selected_module(app),
               IF toggle_selected_module(app) = app THEN filter_run ELSE "full")

NextModule ==
    /\ ~panicked
    /\ Returns(next_module(app), filter_run)

PreviousModule ==
    /\ ~panicked
    /\ Returns(previous_module(app), filter_run)

ToggleLogLevel ==
    \E level \in LevelKeys :
        /\ ~panicked
        /\ Returns(toggle_log_level(app, level), "full")

SelectAllModules ==
    /\ ~panicked
    /\ Returns(select_all_modules(app), "full")

DeselectAllModules ==
    /\ ~panicked
    /\ Returns(deselect_all_modules(app), "full")

SwitchToLogMode ==
    /\ ~panicked
    /\ Returns(switch_to_log_mode(app), filter_run)

SwitchToModuleMode ==
    /\ ~panicked
    /\ Returns(switch_to_module_mode(app), filter_run)

StartTextSelection ==
    /\ ~panicked
    /\ Returns(start_text_selection(app), filter_run)

ClearSelection ==
    /\ ~panicked
    /\ Returns(clear_selection(app), filter_run)

NextLogEntry ==
    /\ ~panicked
    /\ Returns(next_log_entry(app), filter_run)

PreviousLogEntry ==
    /\ ~panicked
    /\ Returns(previous_log_entry(app), filter_run)

ScrollDown ==
    \E lines \in 0..MaxHeight :
        /\ ~panicked
        /\ Returns(scroll_down(app, lines), filter_run)

ScrollUp ==
    \E lines \in 0..MaxHeight :
        /\ ~panicked
        /\ Returns(scroll_up(app, lines), filter_run)

PageUp ==
    \E visible_lines \in 0..MaxHeight :
        /\ ~panicked
        /\ Returns(page_up(app, visible_lines), filter_run)

PageDown ==
    \E visible_lines \in 0..MaxHeight :
        /\ ~panicked
        /\ Returns(page_down(app, visible_lines), filter_run)

\* render_logs hands the height of the log area to
\* update_scroll_position_with_height
Resize ==
    \E visible_lines \in 0..MaxHeight :
        /\ ~panicked
        /\ IF ResizePanics(app, visible_lines)
           THEN Panics
           ELSE Returns(update_scroll_position_with_height(app, visible_lines),
                        filter_run)

Init == AppInit /\ TreeIdle /\ FsIdle /\ ParseIdle /\ PipeIdle

\* the operations that change the entries or the filter state
NextFilter ==
    \/ UpdateLogs
    \/ AddLogs
    \/ FilterLogs
    \/ ToggleSelectedModule
    \/ NextModule
    \/ PreviousModule
    \/ ToggleLogLevel
    \/ SelectAllModules
    \/ DeselectAllModules

SpecFilter == Init /\ [][NextFilter]_vars

\* focus moves, scrolls, resizes and appends
NextViewport ==
    \/ AppendLogs
    \/ SwitchToLogMode
    \/ SwitchToModuleMode
    \/ NextLogEntry
    \/ PreviousLogEntry
    \/ ScrollDown
    \/ ScrollUp
    \/ PageUp
    \/ PageDown
    \/ Resize

SpecViewport == Init /\ [][NextViewport]_vars

\* appends, focus moves and scrolls, with text selection entered and left
NextScroll ==
    \/ AppendLogs
    \/ StartTextSelection
    \/ ClearSelection
    \/ NextLogEntry
    \/ PreviousLogEntry
    \/ ScrollDown
    \/ ScrollUp
    \/ PageUp
    \/ PageDown

SpecScroll == Init /\ [][NextScroll]_vars

\* every operation of the App
Next ==
    \/ UpdateLogs
    \/ AddLogs
    \/ FilterLogs
    \/ ToggleSelectedModule
    \/ NextModule
    \/ PreviousModule
    \/ ToggleLogLevel
    \/ SelectAllModules
    \/ DeselectAllModules
    \/ SwitchToLogMode
    \/ SwitchToModuleMode
    \/ StartTextSelection
    \/ ClearSelection
    \/ NextLogEntry
    \/ PreviousLogEntry
    \/ ScrollDown
    \/ ScrollUp
    \/ PageUp
    \/ PageDown
    \/ Resize

Spec == Init /\ [][Next]_vars

\* the filter operations, each followed by the renders' viewport recompute
NextRefilter ==
    \/ NextFilter
    \/ SwitchToLogMode
    \/ NextLogEntry
    \/ Resize

SpecRefilter == Init /\ [][NextRefilter]_vars

----------------------------------------------------------------------------
(* A ModuleTree driven through its methods *)

\* a call on tree: the call and the tree before it are remembered
TreeCalls(call) ==
    /\ treeCall' = call
    /\ treePrev' = tree
    /\ treeHist' = <<treeCall, treePrev>>
    /\ UNCHANGED <<appVars, fsVars, parseVars, pipeVars>>

TreeInsert ==
    \E module_path \in InsertPaths :
        /\ tree' = insert_module(tree, module_path)
        /\ TreeCalls(<<"insert", module_path>>)

TreeToggle ==
    \E module_path \in QueryPaths :
        /\ tree' = toggle_selection(tree, module_path)
        /\ TreeCalls(<<"toggle", module_path>>)

TreeSelectAll ==
    /\ tree' = select_all(tree)
    /\ TreeCalls(<<"select_all", <<>>>>)

TreeDeselectAll ==
    /\ tree' = deselect_all(tree)
    /\ TreeCalls(<<"deselect_all", <<>>>>)

NextTree ==
    \/ TreeInsert
    \/ TreeToggle
    \/ TreeSelectAll
    \/ TreeDeselectAll

SpecTree == Init /\ [][NextTree]_vars

----------------------------------------------------------------------------
(* Two filter states over one entry list *)

\* the tree the application holds for an entry list, with the flags and the
\* level set of App::new
FilterStateNew(logs) ==
    [module_tree |-> InsertAll(ModuleTreeNew, logs), log_level_filter |-> AllLevels]

\* FilterCache.recompute: the full re-filter of filter_logs
Recompute(fs, logs) == SelectSeq(logs, LAMBDA log : PassesFilter(fs, log))

FsInit ==
    /\ fsLogs \in SeqsUpTo(FilterEntries, MaxLogs)
    /\ fsA = FilterStateNew(fsLogs)
    /\ fsB = FilterStateNew(fsLogs)

\* the module paths the module list offers: the full_path of every item
ItemPaths(fs) ==
    LET items == build_module_items_recursive(fs.module_tree, <<>>, <<>>, 0)
    IN  { items[i].full_path : i \in 1..Len(items) }

FsToggleModule(fs) ==
    { [fs EXCEPT !.module_tree = toggle_selection(fs.module_tree, module_path)] :
        module_path \in ItemPaths(fs) }

FsToggleLevel(fs) ==
    { [fs EXCEPT !.log_level_filter =
            IF level \in fs.log_level_filter
            THEN fs.log_level_filter \ {level}
            ELSE fs.log_level_filter \cup {level}] : level \in LevelKeys }

FsSelectAll(fs) == [fs EXCEPT !.module_tree = select_all(fs.module_tree)]

FsDeselectAll(fs) == [fs EXCEPT !.module_tree = deselect_all(fs.module_tree)]

FsFrameA == UNCHANGED <<fsB, fsLogs, appVars, treeVars, parseVars, pipeVars>>

FsFrameB == UNCHANGED <<fsA, fsLogs, appVars, treeVars, parseVars, pipeVars>>

ToggleModuleA ==
    /\ fsA' \in FsToggleModule(fsA)
    /\ FsFrameA

ToggleLevelA ==
    /\ fsA' \in FsToggleLevel(fsA)
    /\ FsFrameA

SelectAllA ==
    /\ fsA' = FsSelectAll(fsA)
    /\ FsFrameA

DeselectAllA ==
    /\ fsA' = FsDeselectAll(fsA)
    /\ FsFrameA

ToggleModuleB ==
    /\ fsB' \in FsToggleModule(fsB)
    /\ FsFrameB

ToggleLevelB ==
    /\ fsB' \in FsToggleLevel(fsB)
    /\ FsFrameB

SelectAllB ==
    /\ fsB' = FsSelectAll(fsB)
    /\ FsFrameB

DeselectAllB ==
    /\ fsB' = FsDeselectAll(fsB)
    /\ FsFrameB

NextFs ==
    \/ ToggleModuleA
    \/ ToggleLevelA
    \/ SelectAllA
    \/ DeselectAllA
    \/ ToggleModuleB
    \/ ToggleLevelB
    \/ SelectAllB
    \/ DeselectAllB

\* two filter states built for one entry list, everything else idle
InitFs == AppInit /\ TreeIdle /\ FsInit /\ ParseIdle /\ PipeIdle

SpecFs == InitFs /\ [][NextFs]_vars

----------------------------------------------------------------------------
(* parse_multiline_logs, one loop iteration at a time *)

\* the lines joined by line feeds
RECURSIVE JoinLines(_)
JoinLines(ls) ==
    IF ls = <<>> THEN <<>>
    ELSE IF Len(ls) = 1 THEN Head(ls)
    ELSE Head(ls) \o <<"\n">> \o JoinLines(Tail(ls))

ParseInit ==
    /\ content \in { JoinLines(ls) : ls \in SeqsUpTo(InputLines, MaxContent) }
    /\ pIndex = 0
    /\ entries = <<>>
    /\ current_entry = <<>>
    /\ pc = "loop"

\* the line the loop is at
ParseLine == StrLines(content)[pIndex + 1]

ParseIterates ==
    /\ LET st == ParseLoopStep([entries |-> entries,
                                current_entry |-> current_entry], ParseLine)
       IN  /\ entries' = st.entries
           /\ current_entry' = st.current_entry
    /\ pIndex' = pIndex + 1
    /\ UNCHANGED <<content, pc, appVars, treeVars, fsVars, pipeVars>>

\* if let Some(new_entry) = self.parse_line(line)
ParseEntryStart ==
    /\ pc = "loop"
    /\ pIndex < Len(StrLines(content))
    /\ parse_line(ParseLine) # <<>>
    /\ ParseIterates

\* else if let Some(ref mut entry) = current_entry
ParseContinuation ==
    /\ pc = "loop"
    /\ pIndex < Len(StrLines(content))
    /\ parse_line(ParseLine) = <<>>
    /\ current_entry # <<>>
    /\ ParseIterates

\* neither: a line before the first entry
ParseDiscard ==
    /\ pc = "loop"
    /\ pIndex < Len(StrLines(content))
    /\ parse_line(ParseLine) = <<>>
    /\ current_entry = <<>>
    /\ ParseIterates

ParseEnd ==
    /\ pc = "loop"
    /\ pIndex = Len(StrLines(content))
    /\ entries' = ParseLoopEnd([entries |-> entries,
                                current_entry |-> current_entry])
    /\ current_entry' = <<>>
    /\ pc' = "done"
    /\ UNCHANGED <<content, pIndex, appVars, treeVars, fsVars, pipeVars>>

NextParse ==
    \/ ParseEntryStart
    \/ ParseContinuation
    \/ ParseDiscard
    \/ ParseEnd

\* the parser at the top of its loop over an input, everything else idle
InitParse == AppInit /\ TreeIdle /\ FsIdle /\ ParseInit /\ PipeIdle

SpecParse == InitParse /\ [][NextParse]_vars

----------------------------------------------------------------------------
(* Ingestion: main, the stdin task and watch_file (main.rs:50-229, 512-602) *)

\* number of writes the writer makes to the file, or of lines on stdin
MaxWrites == 2

\* the lines a writer produces
WrittenLines == { LineInfoA, LineCont, LineBlank }

\* the input file when main starts: empty, or one line
InitialFiles == { <<>>, LineInfoA \o <<"\n">> }

\* lines.iter().filter_map(|line| parser.parse_line(line)).collect()
RECURSIVE parse_logs_from_lines(_)
parse_logs_from_lines(lines) ==
    IF lines = <<>> THEN <<>>
    ELSE parse_line(Head(lines)) \o parse_logs_from_lines(Tail(lines))

\* content.lines().filter_map(|line| parser.parse_line(line)).collect()
parse_logs_from_content(text) == parse_logs_from_lines(StrLines(text))

\* file.seek(SeekFrom::Start(offset)) and file.read_to_string(): the bytes
\* from offset to the end of the file as it is when it is read
ReadFrom(f, offset) == SubSeq(f, offset + 1, Len(f))

\* the lines of new_content that watch_file sends
NonBlankLines(text) == SelectSeq(StrLines(text), LAMBDA l : ~IsBlank(l))

\* a return from main that leaves the tasks running
ReturnLeavesTasks(taskPc) == taskPc

\* std::process::exit: every task that is still running ends with the process
process_exit(taskPc) ==
    IF taskPc \in {"unspawned", "done", "failed"} THEN taskPc ELSE "killed"

\* whether the process is running: main has neither exited nor returned
Running == mainPc \notin {"exited", "failed"}

\* whether the notify watcher of watch_file is registered
Watching == watchPc \in {"opened", "wait", "stat"}

PipeInit ==
    /\ input \in {"file", "missing", "stdin"}
    /\ file \in IF input = "file" THEN InitialFiles ELSE { <<>> }
    /\ writes = 0
    /\ notes = 0
    /\ mainPc = "start"
    /\ terminal = "cooked"
    /\ watchPc = "unspawned"
    /\ last_size = 0
    /\ current_size = 0
    /\ stdinPc = "unspawned"
    /\ chan = <<>>
    /\ pending_logs = <<>>
    /\ cancelled = FALSE
    /\ sent = <<>>
    /\ base = 0
    /\ truncated = FALSE
    /\ handed = [raw |-> <<>>, entries |-> <<>>]
    /\ shrunk = FALSE

otherVars == <<treeVars, fsVars, parseVars>>

\* enable_raw_mode and EnterAlternateScreen (main.rs:60-64)
MainSetup ==
    /\ mainPc = "start"
    /\ terminal' = "raw"
    /\ mainPc' = "setup"
    /\ UNCHANGED <<appVars, otherVars, input, file, writes, notes, watchPc,
                   last_size, current_size, stdinPc, chan, pending_logs,
                   cancelled, sent, base, truncated, handed, shrunk>>

\* the initial load (main.rs:93-97): the file is read, parsed line by line
\* and handed to update_logs
MainLoad ==
    /\ mainPc = "setup"
    /\ input = "file"
    /\ LET logs == parse_logs_from_content(file)
       IN  /\ app' = update_logs(app, logs)
           /\ handed' = [raw |-> StrLines(file), entries |-> logs]
    /\ mainPc' = "spawn"
    /\ UNCHANGED <<panicked, filter_run, otherVars, input, file, writes, notes,
                   terminal, watchPc, last_size, current_size, stdinPc, chan,
                   pending_logs, cancelled, sent, base, truncated, shrunk>>

\* read_to_string(&input_file)? on a file that does not exist: main returns
\* the error (main.rs:95)
MainLoadFails ==
    /\ mainPc = "setup"
    /\ input = "missing"
    /\ mainPc' = "failed"
    /\ UNCHANGED <<appVars, otherVars, input, file, writes, notes, terminal,
                   watchPc, last_size, current_size, stdinPc, chan,
                   pending_logs, cancelled, sent, base, truncated, handed, shrunk>>

\* tokio::spawn of the watch_file task (main.rs:99-113)
MainSpawnWatch ==
    /\ mainPc = "spawn"
    /\ watchPc' = "init"
    /\ mainPc' = "loop"
    /\ UNCHANGED <<appVars, otherVars, input, file, writes, notes, terminal,
                   last_size, current_size, stdinPc, chan, pending_logs,
                   cancelled, sent, base, truncated, handed, shrunk>>

\* tokio::spawn of the stdin task (main.rs:114-131)
MainSpawnStdin ==
    /\ mainPc = "setup"
    /\ input = "stdin"
    /\ stdinPc' = "blocked"
    /\ mainPc' = "loop"
    /\ UNCHANGED <<appVars, otherVars, input, file, writes, notes, terminal,
                   watchPc, last_size, current_size, chan, pending_logs,
                   cancelled, sent, base, truncated, handed, shrunk>>

\* the tick branch (main.rs:152-159); with an empty queue it does nothing
MainTick ==
    /\ mainPc = "loop"
    /\ pending_logs # <<>>
    /\ LET logs == parse_logs_from_lines(pending_logs)
       IN  /\ app' = add_logs(app, logs)
           /\ handed' = [raw |-> pending_logs, entries |-> logs]
    /\ pending_logs' = <<>>
    /\ UNCHANGED <<panicked, filter_run, otherVars, input, file, writes, notes,
                   mainPc, terminal, watchPc, last_size, current_size, stdinPc,
                   chan, cancelled, sent, base, truncated, shrunk>>

\* a receive branch that applies the line at once instead of queueing it
MainRecvApplies ==
    /\ mainPc = "loop"
    /\ chan # <<>>
    /\ app' = add_logs(app, parse_logs_from_lines(<<Head(chan)>>))
    /\ chan' = Tail(chan)
    /\ UNCHANGED <<panicked, filter_run, otherVars, input, file, writes, notes,
                   mainPc, terminal, watchPc, last_size, current_size, stdinPc,
                   pending_logs, cancelled, sent, base, truncated, handed,
                   shrunk>>

\* the recv branch (main.rs:161-165)
MainRecv ==
    /\ mainPc = "loop"
    /\ chan # <<>>
    /\ pending_logs' = Append(pending_logs, Head(chan))
    /\ chan' = Tail(chan)
    /\ UNCHANGED <<appVars, otherVars, input, file, writes, notes, mainPc,
                   terminal, watchPc, last_size, current_size, stdinPc,
                   cancelled, sent, base, truncated, handed, shrunk>>

\* should_quit ends the loop; cancellation_token.cancel() and task.abort()
\* (main.rs:199-210)
MainQuit ==
    /\ mainPc = "loop"
    /\ cancelled' = TRUE
    /\ mainPc' = "cleanup"
    /\ UNCHANGED <<appVars, otherVars, input, file, writes, notes, terminal,
                   watchPc, last_size, current_size, stdinPc, chan,
                   pending_logs, sent, base, truncated, handed, shrunk>>

\* disable_raw_mode, LeaveAlternateScreen and std::process::exit
\* (main.rs:212-228)
MainCleanupExit ==
    /\ mainPc = "cleanup"
    /\ terminal' = "cooked"
    /\ mainPc' = "exited"
    /\ watchPc' = process_exit(watchPc)
    /\ stdinPc' = process_exit(stdinPc)
    /\ UNCHANGED <<appVars, otherVars, input, file, writes, notes, last_size,
                   current_size, chan, pending_logs, cancelled, sent, base,
                   truncated, handed, shrunk>>

\* watch_file registers its watcher (main.rs:527-547)
TailerWatch ==
    /\ watchPc = "init"
    /\ watchPc' = "opened"
    /\ UNCHANGED <<appVars, otherVars, input, file, writes, notes, mainPc,
                   terminal, last_size, current_size, stdinPc, chan,
                   pending_logs, cancelled, sent, base, truncated, handed,
                   shrunk>>

\* watch_file opens the file and remembers its length (main.rs:549-552)
TailerInit ==
    /\ watchPc = "opened"
    /\ last_size' = Len(file)
    /\ base' = Len(file)
    /\ watchPc' = "wait"
    /\ UNCHANGED <<appVars, otherVars, input, file, writes, notes, mainPc,
                   terminal, current_size, stdinPc, chan, pending_logs,
                   cancelled, sent, truncated, handed, shrunk>>

\* the cancellation branch of the select (main.rs:556-559)
TailerCancelled ==
    /\ watchPc = "wait"
    /\ cancelled
    /\ watchPc' = "done"
    /\ UNCHANGED <<appVars, otherVars, input, file, writes, notes, mainPc,
                   terminal, last_size, current_size, stdinPc, chan,
                   pending_logs, cancelled, sent, base, truncated, handed, shrunk>>

\* the event branch: a notification is received, the file is re-opened and
\* its length is taken (main.rs:560-566)
TailerEvent ==
    /\ watchPc = "wait"
    /\ notes > 0
    /\ notes' = notes - 1
    /\ current_size' = Len(file)
    /\ watchPc' = "stat"
    /\ UNCHANGED <<appVars, otherVars, input, file, writes, mainPc, terminal,
                   last_size, stdinPc, chan, pending_logs, cancelled, sent,
                   base, truncated, handed, shrunk>>

\* the growth branch (main.rs:568-583): the file is read from the remembered
\* length to its end, the non-blank lines are sent and the length taken
\* before the read is remembered
TailerGrow ==
    /\ watchPc = "stat"
    /\ current_size > last_size
    /\ LET lines == NonBlankLines(ReadFrom(file, last_size))
       IN  /\ chan' = chan \o lines
           /\ sent' = sent \o lines
    /\ last_size' = current_size
    /\ watchPc' = "wait"
    /\ shrunk' = FALSE
    /\ UNCHANGED <<appVars, otherVars, input, file, writes, notes, mainPc,
                   terminal, current_size, stdinPc, pending_logs, cancelled,
                   base, truncated, handed>>

\* a shrink branch that keeps the remembered length
TailerShrinkKeepsOffset ==
    /\ watchPc = "stat"
    /\ current_size < last_size
    /\ watchPc' = "wait"
    /\ shrunk' = TRUE
    /\ UNCHANGED <<appVars, otherVars, input, file, writes, notes, mainPc,
                   terminal, last_size, current_size, stdinPc, chan,
                   pending_logs, cancelled, sent, base, truncated, handed>>

\* the shrink branch (main.rs:584-589)
TailerShrink ==
    /\ watchPc = "stat"
    /\ current_size < last_size
    /\ last_size' = 0
    /\ watchPc' = "wait"
    /\ shrunk' = TRUE
    /\ UNCHANGED <<appVars, otherVars, input, file, writes, notes, mainPc,
                   terminal, current_size, stdinPc, chan, pending_logs,
                   cancelled, sent, base, truncated, handed>>

\* neither branch: the length is the remembered one
TailerSame ==
    /\ watchPc = "stat"
    /\ current_size = last_size
    /\ watchPc' = "wait"
    /\ UNCHANGED <<appVars, otherVars, input, file, writes, notes, mainPc,
                   terminal, last_size, current_size, stdinPc, chan,
                   pending_logs, cancelled, sent, base, truncated, handed, shrunk>>

\* File::open, metadata, seek or read_to_string fails while an event is
\* handled: the ? returns the error from watch_file and the task ends
\* (main.rs:564-571, 103-109)
TailerIoError ==
    /\ watchPc = "stat"
    /\ watchPc' = "failed"
    /\ UNCHANGED <<appVars, otherVars, input, file, writes, notes, mainPc,
                   terminal, last_size, current_size, stdinPc, chan,
                   pending_logs, cancelled, sent, base, truncated, handed, shrunk>>

\* the stdin task (main.rs:116-130) gets a line: it stops if the token is
\* cancelled and sends the line otherwise
StdinLine ==
    \E line \in WrittenLines :
        /\ stdinPc = "blocked"
        /\ writes < MaxWrites
        /\ writes' = writes + 1
        /\ IF cancelled
           THEN /\ stdinPc' = "done"
                /\ UNCHANGED <<chan, sent>>
           ELSE /\ chan' = Append(chan, line)
                /\ sent' = Append(sent, line)
                /\ UNCHANGED stdinPc
        /\ UNCHANGED <<appVars, otherVars, input, file, notes, mainPc,
                       terminal, watchPc, last_size, current_size,
                       pending_logs, cancelled, base, truncated, handed, shrunk>>

\* stdin is closed: reader.lines() ends
StdinEof ==
    /\ stdinPc = "blocked"
    /\ stdinPc' = "done"
    /\ UNCHANGED <<appVars, otherVars, input, file, writes, notes, mainPc,
                   terminal, watchPc, last_size, current_size, chan,
                   pending_logs, cancelled, sent, base, truncated, handed, shrunk>>

\* the writer of the tailed file appends one line while the viewer runs; a
\* registered watcher queues a notification
WriterAppend ==
    \E line \in WrittenLines :
        /\ input = "file"
        /\ Running
        /\ writes < MaxWrites
        /\ writes' = writes + 1
        /\ file' = file \o line \o <<"\n">>
        /\ notes' = IF Watching THEN notes + 1 ELSE notes
        /\ UNCHANGED <<appVars, otherVars, input, mainPc, terminal, watchPc,
                       last_size, current_size, stdinPc, chan, pending_logs,
                       cancelled, sent, base, truncated, handed, shrunk>>

\* the writer truncates the tailed file
WriterTruncate ==
    /\ input = "file"
    /\ Running
    /\ writes < MaxWrites
    /\ file # <<>>
    /\ writes' = writes + 1
    /\ file' = <<>>
    /\ truncated' = TRUE
    /\ notes' = IF Watching THEN notes + 1 ELSE notes
    /\ UNCHANGED <<appVars, otherVars, input, mainPc, terminal, watchPc,
                   last_size, current_size, stdinPc, chan, pending_logs,
                   cancelled, sent, base, handed, shrunk>>

NextMain ==
    \/ MainSetup
    \/ MainLoad
    \/ MainLoadFails
    \/ MainSpawnWatch
    \/ MainSpawnStdin
    \/ MainTick
    \/ MainRecv
    \/ MainQuit
    \/ MainCleanupExit

NextTailer ==
    \/ TailerWatch
    \/ TailerInit
    \/ TailerCancelled
    \/ TailerEvent
    \/ TailerGrow
    \/ TailerShrink
    \/ TailerSame
    \/ TailerIoError

NextPipe ==
    \/ NextMain
    \/ NextTailer
    \/ StdinLine
    \/ StdinEof
    \/ WriterAppend
    \/ WriterTruncate

InitPipe == AppInit /\ TreeIdle /\ FsIdle /\ ParseIdle /\ PipeInit

SpecPipe == InitPipe /\ [][NextPipe]_vars

\* the tokio scheduler runs every task that is ready: watch_file takes each
\* step that stays enabled, and main, the task block_on drives, goes on from
\* the end of its loop to the exit.  The user's quit key, the writer and
\* stdin are not scheduled.
FairPipe ==
    /\ WF_vars(MainCleanupExit)
    /\ WF_vars(NextTailer)

SpecPipeFair == SpecPipe /\ FairPipe

\* the two writes of a writer that appends the line LineInfoA in two parts
LineParts == { SubSeq(LineInfoA, 1, 6), SubSeq(LineInfoA, 7, 8) \o <<"\n">> }

\* the writer appends a part of a line; the notification is as for any write
WriterAppendPart ==
    \E part \in LineParts :
        /\ input = "file"
        /\ Running
        /\ writes < MaxWrites
        /\ writes' = writes + 1
        /\ file' = file \o part
        /\ notes' = IF Watching THEN notes + 1 ELSE notes
        /\ UNCHANGED <<appVars, otherVars, input, mainPc, terminal, watchPc,
                       last_size, current_size, stdinPc, chan, pending_logs,
                       cancelled, sent, base, truncated, handed, shrunk>>

\* the pipeline with a writer whose writes need not end at a line's end
NextSplit ==
    \/ NextPipe
    \/ WriterAppendPart

SpecSplit == InitPipe /\ [][NextSplit]_vars

----------------------------------------------------------------------------
(* The event handler (main.rs:231-510) and the App methods only it calls *)

\* available_log_levels, a Vec that no method changes
available_log_levels ==
    << <<"ERROR">>, <<"WARN">>, <<"INFO">>, <<"DEBUG">>, <<"TRACE">> >>

quit(a) == [a EXCEPT !.should_quit = TRUE]

\* the App after copy_selected_logs; copy_message holds the count of lines
\* its text names
copy_selected_logs(a) ==
    IF a.selection_start # <<>> /\ a.selection_end # <<>>
    THEN LET start == Min(a.selection_start[1], a.selection_end[1])
             end == Max(a.selection_start[1], a.selection_end[1])
         IN  [a EXCEPT !.copy_message = <<end - start + 1>>]
    ELSE a

clear_copy_message(a) == [a EXCEPT !.copy_message = <<>>]

next_log_level(a) ==
    [a EXCEPT !.selected_log_level_index =
                  (a.selected_log_level_index + 1) % Len(available_log_levels)]

previous_log_level(a) ==
    [a EXCEPT !.selected_log_level_index =
                  IF a.selected_log_level_index = 0
                  THEN Len(available_log_levels) - 1
                  ELSE a.selected_log_level_index - 1]

toggle_selected_log_level(a) ==
    IF a.selected_log_level_index < Len(available_log_levels)
    THEN toggle_log_level(a, available_log_levels[a.selected_log_level_index + 1])
    ELSE a

\* App::next_log_line and App::previous_log_line, which main.rs calls and
\* ui.rs does not define: the focus moves of ui.rs, next_log_entry and
\* previous_log_entry
next_log_line(a) == next_log_entry(a)

previous_log_line(a) == previous_log_entry(a)

\* the keys of the handler's arms; "x" is a key no arm names
Keys ==
    { "q", "Down", "Up", "Tab", "1", "v", "Esc", "y", "c", "x" }

\* the match arm of AppMode::ModuleSelection
ModuleSelectionKey(a, key) ==
    CASE key = "q"    -> quit(a)
      [] key = " "    -> toggle_selected_module(a)
      [] key = "Down" ->
            IF SelectedOrZero(a) = SatSub(Len(a.module_items), 1)
            THEN switch_to_log_level_mode(a)
            ELSE next_module(a)
      [] key = "Up"   ->
            IF SelectedOrZero(a) = 0
            THEN [switch_to_log_level_mode(a) EXCEPT
                      !.selected_log_level_index = Len(available_log_levels) - 1]
            ELSE previous_module(a)
      [] key = "Tab"  -> switch_to_log_mode(a)
      [] key = "1"    -> toggle_log_level(a, <<"ERROR">>)
      [] OTHER        -> a

\* the match arm of AppMode::LogNavigation
LogNavigationKey(a, key) ==
    CASE key = "q"    -> quit(a)
      [] key = "Tab"  ->
            switch_to_module_mode([a EXCEPT !.show_filter_panel = TRUE])
      [] key = "Down" -> next_log_line(a)
      [] key = "Up"   -> previous_log_line(a)
      [] key = "v"    -> start_text_selection(a)
      [] key = "Esc"  -> switch_to_module_mode(scroll_to_bottom(a))
      [] key = "c"    -> clear_copy_message(a)
      [] key = "1"    -> toggle_log_level(a, <<"ERROR">>)
      [] OTHER        -> a

\* the match arm of AppMode::TextSelection
TextSelectionKey(a, key) ==
    CASE key = "q"    -> quit(a)
      [] key = "Down" -> next_log_line(a)
      [] key = "Up"   -> previous_log_line(a)
      [] key = "y"    -> clear_selection(copy_selected_logs(a))
      [] key = "Esc"  -> clear_selection(a)
      [] key = "c"    -> clear_copy_message(a)
      [] OTHER        -> a

\* the match arm of AppMode::LogLevelFilter
LogLevelFilterKey(a, key) ==
    CASE key = "q"    -> quit(a)
      [] key = "Tab"  -> switch_to_log_mode(a)
      [] key = "Down" ->
            IF a.selected_log_level_index =
                   SatSub(Len(available_log_levels), 1)
            THEN [switch_to_module_mode(a) EXCEPT !.module_list_state = <<0>>]
            ELSE next_log_level(a)
      [] key = "Up"   ->
            IF a.selected_log_level_index = 0
            THEN IF a.module_items # <<>>
                 THEN [switch_to_module_mode(a) EXCEPT
                           !.module_list_state = <<Len(a.module_items) - 1>>]
                 ELSE switch_to_module_mode(a)
            ELSE previous_log_level(a)
      [] key = " "    -> toggle_selected_log_level(a)
      [] key = "1"    -> toggle_log_level(a, <<"ERROR">>)
      [] OTHER        -> a

\* Event::Key with KeyEventKind::Press
handle_key(a, key) ==
    CASE a.mode = "ModuleSelection" -> ModuleSelectionKey(a, key)
      [] a.mode = "LogNavigation"   -> LogNavigationKey(a, key)
      [] a.mode = "TextSelection"   -> TextSelectionKey(a, key)
      [] a.mode = "LogLevelFilter"  -> LogLevelFilterKey(a, key)

\* Event::Mouse: three focus moves, each under the mode test
RECURSIVE handle_mouse(_, _, _)
handle_mouse(a, kind, n) ==
    IF n = 0 THEN a
    ELSE handle_mouse(
             IF a.mode \in {"LogNavigation", "TextSelection"}
             THEN IF kind = "ScrollUp" THEN previous_log_line(a)
                  ELSE next_log_line(a)
             ELSE a,
             kind, n - 1)

\* the main loop hands an event to handle_events until should_quit is set
KeyEvent ==
    \E key \in Keys :
        /\ ~panicked
        /\ ~app.should_quit
        /\ Returns(handle_key(app, key), filter_run)

MouseEvent ==
    \E kind \in {"ScrollUp", "ScrollDown"} :
        /\ ~panicked
        /\ ~app.should_quit
        /\ Returns(handle_mouse(app, kind, 3), filter_run)

\* the tick of the main loop hands the pending entries to add_logs
TickAppend ==
    \E new_logs \in SeqsUpTo(FilterEntries, MaxLogs) :
        /\ ~panicked
        /\ ~app.should_quit
        /\ new_logs # <<>>
        /\ Len(app.logs) + Len(new_logs) <= MaxLogs
        /\ Returns(add_logs(app, new_logs), filter_run)

\* terminal.draw after an event or a tick: render_logs recomputes the
\* viewport for the height of the log area
Draw ==
    /\ ~app.should_quit
    /\ Resize

NextEvents ==
    \/ KeyEvent
    \/ MouseEvent
    \/ TickAppend
    \/ Draw

SpecEvents == Init /\ [][NextEvents]_vars

----------------------------------------------------------------------------
(* Properties *)

IsPrefix(p, q) == Len(p) <= Len(q) /\ SubSeq(q, 1, Len(p)) = p

\* the entries of logs that are visible under the filter state of a, in order
RECURSIVE VisibleSubsequence(_, _)
VisibleSubsequence(a, logs) ==
    IF logs = <<>> THEN <<>>
    ELSE (IF /\ is_module_selected(a.module_tree, Head(logs).target)
             /\ Head(logs).level \in a.log_level_filter
          THEN <<Head(logs)>> ELSE <<>>)
             \o VisibleSubsequence(a, Tail(logs))

\* C1: after every operation that changes the entries or the filter state,
\* filtered_logs is exactly the subsequence of logs whose target is selected
\* in the module tree and whose level is in log_level_filter, in the
\* original order.
C1_FilteredIsVisibleSubsequence ==
    app.filtered_logs = VisibleSubsequence(app, app.logs)

\* C1 witness: entries were appended by add_logs under a filter that hides
\* some entries and shows others.
C1_Witness ==
    /\ filter_run = "none"
    /\ app.filtered_logs # <<>>
    /\ Len(app.filtered_logs) < Len(app.logs)
    /\ \E p \in DOMAIN app.module_tree : ~app.module_tree[p]

\* C2: after any sequence of focus moves, scrolls, resizes and appends, a
\* non-empty filtered list has 0 <= current_log_line < len(filtered_logs),
\* and no operation has indexed the list out of bounds.
C2_FocusInRange ==
    /\ ~panicked
    /\ app.filtered_logs # <<>> =>
           /\ 0 <= app.current_log_line
           /\ app.current_log_line < Len(app.filtered_logs)

\* C2 witness: after focus moves and a scroll over a list of three entries
\* the focus is on the entry in the middle and the view is scrolled down.
C2_Witness ==
    /\ Len(app.filtered_logs) >= 3
    /\ app.current_log_line = 1
    /\ ~app.auto_follow
    /\ ~app.last_action_was_focus_move
    /\ app.log_scroll_position > 0

\* C3: after any sequence of focus moves, scrolls, resizes and appends, a
\* non-empty filtered list has 0 <= log_scroll_position <=
\* total_display_rows - 1.
C3_ScrollWithinRows ==
    app.filtered_logs # <<>> =>
        /\ 0 <= app.log_scroll_position
        /\ app.log_scroll_position <= TotalDisplayLines(app) - 1

\* C4: current_log_line is a valid index into filtered_logs whenever the list
\* is non-empty, also right after an operation that shrinks or replaces the
\* list and during the viewport recompute that follows (which does not panic).
C4_FocusValidAfterRefilter ==
    /\ ~panicked
    /\ app.filtered_logs # <<>> =>
           app.current_log_line < Len(app.filtered_logs)

\* C5: after toggle(p) on a path present in the tree, is_selected(c) is the
\* new selected state of p, the negation of its old one, for p and for every
\* descendant path c of p.
C5_ToggleCascades ==
    (treeCall[1] = "toggle" /\ Split(treeCall[2]) \in DOMAIN treePrev) =>
        LET p == Split(treeCall[2])
        IN  /\ tree[p] = ~treePrev[p]
            /\ \A c \in QueryPaths :
                   (Split(c) \in DOMAIN tree /\ IsPrefix(p, Split(c))) =>
                       is_module_selected(tree, c) = tree[p]

\* C5 witness: the toggled node had a descendant whose flag differed from its
\* own before the toggle.
C5_Witness ==
    /\ treeCall[1] = "toggle"
    /\ Split(treeCall[2]) \in DOMAIN treePrev
    /\ \E q \in DOMAIN treePrev :
           /\ IsPrefix(Split(treeCall[2]), q)
           /\ treePrev[q] # treePrev[Split(treeCall[2])]

\* C6: is_selected(path) is false when a segment of the path is missing from
\* the tree (the empty path is the one segment ""), and otherwise is the
\* selected flag of the node the last segment reaches, whatever the flags of
\* its ancestors.
C6_IsSelectedIsLeafFlag ==
    \A s \in QueryPaths :
        LET parts == Split(s)
            missing == \E k \in 1..Len(parts) :
                           SubSeq(parts, 1, k) \notin DOMAIN tree
        IN  is_module_selected(tree, s) = (IF missing THEN FALSE ELSE tree[parts])

\* C6 witness: a selected node under a deselected ancestor is reported
\* selected, while the empty path is missing.
C6_Witness ==
    /\ <<<<"a">>, <<"b">>>> \in DOMAIN tree
    /\ ~tree[<<<<"a">>>>]
    /\ is_module_selected(tree, <<"a", ":", ":", "b">>)
    /\ <<<<>>>> \notin DOMAIN tree
    /\ ~is_module_selected(tree, <<>>)

\* C7: two filter states over the same entry list with equal fingerprints
\* yield identical filtered lists.
C7_EqualFingerprintEqualList ==
    calculate_filter_hash(fsA) = calculate_filter_hash(fsB) =>
        Recompute(fsA, fsLogs) = Recompute(fsB, fsLogs)

\* C7 witness: both filter states were changed, hide some entries and have
\* the same fingerprint.
C7_Witness ==
    /\ calculate_filter_hash(fsA) = calculate_filter_hash(fsB)
    /\ fsA # FilterStateNew(fsLogs)
    /\ Recompute(fsA, fsLogs) # <<>>
    /\ Recompute(fsA, fsLogs) # fsLogs

\* C8 as stated: two fingerprints are equal if and only if the two filter
\* states produce the same visible subset of the entry list.
C8_FingerprintIffSameSubset ==
    calculate_filter_hash(fsA) = calculate_filter_hash(fsB) <=>
        Recompute(fsA, fsLogs) = Recompute(fsB, fsLogs)

\* C8 amended: two fingerprints are equal if and only if the two filter
\* states are the same (the same selected flag on every node and the same
\* level set); filter states that differ have different fingerprints even
\* when they produce the same visible subset.
C8_FingerprintIffSameState ==
    calculate_filter_hash(fsA) = calculate_filter_hash(fsB) <=>
        /\ fsA.module_tree = fsB.module_tree
        /\ fsA.log_level_filter = fsB.log_level_filter

\* C8 witness: two filter states that differ and produce the same non-empty
\* visible subset.
C8_Witness ==
    /\ fsA # fsB
    /\ Recompute(fsA, fsLogs) = Recompute(fsB, fsLogs)
    /\ Recompute(fsA, fsLogs) # <<>>

\* C9: a filter_logs call that follows a filter_logs call with no change of
\* entries, module tree or level set in between takes the skip path and
\* leaves the App, filtered_logs included, as it was.
C9_SecondFilterSkips ==
    [][(FilterLogs /\ filter_run # "none") =>
           (filter_run' = "skip" /\ app' = app)]_vars

\* C9 witness: a filter_logs call has taken the skip path over a non-empty
\* filtered list.
C9_Witness ==
    /\ filter_run = "skip"
    /\ app.filtered_logs # <<>>
    /\ Len(app.filtered_logs) < Len(app.logs)

\* the indices of the lines that match the grammar, in order
MatchingLines(lines) ==
    SelectSeq([i \in 1..Len(lines) |-> i],
              LAMBDA i : parse_line(lines[i]) # <<>>)

\* C10: parse_multiline_logs returns as many entries as there are lines that
\* match the grammar, in the order of their starting lines; lines before the
\* first match produce no entry.
C10_OneEntryPerMatchingLine ==
    pc = "done" =>
        LET lines == StrLines(content)
            starts == MatchingLines(lines)
        IN  /\ Len(entries) = Len(starts)
            /\ \A k \in 1..Len(starts) :
                   LET first == parse_line(lines[starts[k]])[1]
                   IN  /\ entries[k].timestamp = first.timestamp
                       /\ entries[k].level = first.level
                       /\ entries[k].target = first.target

\* C10 witness: an input that begins with a non-matching, non-blank line and
\* holds two matching lines of different modules has been parsed.
C10_Witness ==
    /\ pc = "done"
    /\ Len(entries) = 2
    /\ entries[1].target # entries[2].target
    /\ parse_line(StrLines(content)[1]) = <<>>
    /\ ~IsBlank(StrLines(content)[1])

\* the message the lines from..to fold into msg: every non-blank line is
\* appended after a line feed
RECURSIVE FoldedMessage(_, _, _, _)
FoldedMessage(msg, lines, from, to) ==
    IF from > to THEN msg
    ELSE FoldedMessage(IF IsBlank(lines[from]) THEN msg
                       ELSE msg \o <<"\n">> \o lines[from],
                       lines, from + 1, to)

\* C11: the message of each entry of parse_multiline_logs is the message of
\* its matching line followed by every non-matching non-blank line before the
\* next matching line (or the end of the input), joined by line feeds in the
\* original order; blank lines are not appended and do not end the entry.
C11_MessageFoldsContinuations ==
    pc = "done" =>
        LET lines == StrLines(content)
            starts == MatchingLines(lines)
        IN  /\ Len(entries) = Len(starts)
            /\ \A k \in 1..Len(starts) :
                   LET first == parse_line(lines[starts[k]])[1]
                       last  == IF k < Len(starts) THEN starts[k + 1] - 1
                                ELSE Len(lines)
                   IN  entries[k].message =
                           FoldedMessage(first.message, lines,
                                         starts[k] + 1, last)

\* C11 witness: a matching line, a blank line and a non-blank continuation
\* line were parsed into one entry whose message holds the continuation.
C11_Witness ==
    /\ pc = "done"
    /\ Len(StrLines(content)) = 3
    /\ parse_line(StrLines(content)[1]) # <<>>
    /\ IsBlank(StrLines(content)[2])
    /\ StrLines(content)[3] = LineCont
    /\ Len(entries) = 1
    /\ entries[1].message =
           parse_line(StrLines(content)[1])[1].message \o <<"\n">> \o LineCont

\* C12: the entries handed to the App by the initial load and by every tick
\* are the entries parse_multiline_logs yields on the same raw lines, so a
\* non-matching non-blank line after a matching line is folded into the entry.
C12_HandedEntriesAreParseStream ==
    handed.entries = parse_multiline_logs(JoinLines(handed.raw))

\* the lines appended to the file since watch_file first remembered its length
AppendedLines == NonBlankLines(ReadFrom(file, base))

\* C13: every (non-blank) line appended to the file after the remembered
\* length was taken is sent exactly once: what has been sent is a prefix of
\* the appended lines, and all of them once no notification is outstanding.
C13_AppendedLinesSentOnce ==
    (input = "file" /\ watchPc \in {"wait", "stat"} /\ ~truncated) =>
        /\ IsPrefix(sent, AppendedLines)
        /\ (watchPc = "wait" /\ notes = 0) => sent = AppendedLines

\* C14: a shrink event sets the remembered length to 0 and delivers nothing,
\* and the growth event that follows it reads the new content from offset 0.
C14_ShrinkResetsToStart ==
    [][/\ TailerShrink => (last_size' = 0 /\ sent' = sent /\ chan' = chan)
       /\ (TailerGrow /\ shrunk) =>
              (last_size = 0 /\ sent' = sent \o NonBlankLines(file))]_vars

\* C14 witness: the file was truncated and written again to a length not
\* above the first remembered one, and its lines were delivered from offset 0.
C14_Witness ==
    /\ truncated
    /\ file # <<>>
    /\ Len(file) <= base
    /\ ~shrunk
    /\ last_size = Len(file)
    /\ sent = StrLines(file)

\* C15: for a tailed file whose lines all match the grammar, the entry list
\* of the App is the entries of the file's lines, each once and in order:
\* always a prefix of them, and all of them when nothing is in flight.
C15_EntriesOncePerLineInOrder ==
    (/\ input = "file"
     /\ ~truncated
     /\ \A i \in 1..Len(StrLines(file)) : parse_line(StrLines(file)[i]) # <<>>)
    => /\ IsPrefix(app.logs, parse_logs_from_content(file))
       /\ (/\ mainPc = "loop"
           /\ watchPc = "wait"
           /\ notes = 0
           /\ chan = <<>>
           /\ pending_logs = <<>>) => app.logs = parse_logs_from_content(file)

\* C16: an I/O error while a notification is handled does not end watch_file:
\* the remembered length is unchanged and the loop waits for the next
\* notification.
C16_IoErrorIsContained ==
    [][TailerIoError => (watchPc' = "wait" /\ last_size' = last_size)]_vars

\* C17: with a missing input file main fails before any UI is shown: the
\* terminal is not in raw mode, no task is spawned and the loop is not entered.
C17_MissingFileFailsBeforeUi ==
    input = "missing" =>
        /\ mainPc \notin {"loop", "cleanup", "exited"}
        /\ watchPc = "unspawned" /\ stdinPc = "unspawned"
        /\ mainPc = "failed" => terminal = "cooked"

\* a task that is not running: never spawned, returned, or ended with the
\* process
Stopped(taskPc) == taskPc \in {"unspawned", "done", "failed", "killed"}

C19_AutoFollowIffFocusLast ==
    app.filtered_logs # <<>> =>
        (app.auto_follow <=>
             app.current_log_line = Len(app.filtered_logs) - 1)

\* whether the first row of the focused entry of a is inside the band of
\* visible_lines rows that starts at the scroll position
FocusStartVisible(a, visible_lines) ==
    LET start == get_entry_display_position(a, a.current_log_line)
    IN  /\ a.log_scroll_position <= start
        /\ start < a.log_scroll_position + visible_lines

\* C20: in every state reached with a focus move as the last action and a
\* non-empty filtered list, update_scroll_position_with_height leaves the
\* first row of the focused entry inside the visible band, for every height
\* of at least one row.
C20_FocusStartVisibleAfterResize ==
    (/\ ~panicked
     /\ app.filtered_logs # <<>>
     /\ app.current_log_line < Len(app.filtered_logs)
     /\ app.last_action_was_focus_move
     /\ app.mode \in {"LogNavigation", "TextSelection"})
    => \A visible_lines \in 1..MaxHeight :
           FocusStartVisible(
               update_scroll_position_with_height(app, visible_lines),
               visible_lines)

\* C21: toggle(p) leaves the set of nodes as it was and changes no flag
\* outside the subtree of p: ancestors, siblings and every other node keep
\* their flags.
C21_ToggleFrame ==
    treeCall[1] = "toggle" =>
        /\ DOMAIN tree = DOMAIN treePrev
        /\ \A q \in DOMAIN treePrev :
               ~IsPrefix(Split(treeCall[2]), q) => tree[q] = treePrev[q]

\* C21 witness: a node with a descendant and an ancestor was toggled while a
\* sibling held the flag the toggle moved the node away from.
C21_Witness ==
    /\ treeCall[1] = "toggle"
    /\ LET p == Split(treeCall[2])
       IN  /\ p \in DOMAIN treePrev
           /\ tree[p] # treePrev[p]
           /\ \E c \in DOMAIN treePrev : IsPrefix(p, c) /\ c # p
           /\ \E q \in DOMAIN treePrev :
                  /\ Len(q) = Len(p)
                  /\ q # p
                  /\ tree[q] = treePrev[p]
           /\ tree[<<>>] = treePrev[p]

\* C22: toggle(path) with a segment of the path missing from the tree leaves
\* the tree as it was, and an insert of that path right after it gives the
\* tree an insert without the toggle gives, with the node of the path
\* selected.
C22_ToggleMissingIsNoOp ==
    /\ (treeCall[1] = "toggle" /\ Split(treeCall[2]) \notin DOMAIN treePrev)
           => tree = treePrev
    /\ (/\ treeCall[1] = "insert"
        /\ treeHist[1] = <<"toggle", treeCall[2]>>
        /\ Split(treeCall[2]) \notin DOMAIN treeHist[2])
           => /\ tree = insert_module(treeHist[2], treeCall[2])
              /\ tree[Split(treeCall[2])]
              /\ is_module_selected(tree, treeCall[2])

\* C22 witness: the path was toggled while only its first segment was in the
\* tree, deselected, and was inserted by the next call.
C22_Witness ==
    /\ treeCall[1] = "insert"
    /\ treeHist[1] = <<"toggle", treeCall[2]>>
    /\ LET p == Split(treeCall[2])
       IN  /\ Len(p) = 2
           /\ p \notin DOMAIN treeHist[2]
           /\ SubSeq(p, 1, 1) \in DOMAIN treeHist[2]
           /\ ~treeHist[2][SubSeq(p, 1, 1)]
           /\ tree[p]

\* C23 as stated: after toggle(p) twice in a row every descendant c of p has
\* the flag it had before the first toggle.
C23_DoubleToggleRestoresDescendants ==
    (/\ treeCall[1] = "toggle"
     /\ treeHist[1] = treeCall
     /\ Split(treeCall[2]) \in DOMAIN treeHist[2])
    => \A c \in DOMAIN tree :
           IsPrefix(Split(treeCall[2]), c) => tree[c] = treeHist[2][c]

\* C23: after toggle(p) twice in a row p has the flag it had before the first
\* toggle and every descendant c of p has that flag of p; c has its own
\* earlier flag exactly when that flag was the one of p.
C23_DoubleToggleRestoresNodeFlag ==
    (/\ treeCall[1] = "toggle"
     /\ treeHist[1] = treeCall
     /\ Split(treeCall[2]) \in DOMAIN treeHist[2])
    => LET p == Split(treeCall[2])
       IN  \A c \in DOMAIN tree :
               IsPrefix(p, c) =>
                   /\ tree[c] = treeHist[2][p]
                   /\ (tree[c] = treeHist[2][c]) <=>
                          (treeHist[2][c] = treeHist[2][p])

\* C23 witness: a node was toggled twice in a row and one of its descendants
\* had the other flag before the first toggle.
C23_Witness ==
    /\ treeCall[1] = "toggle"
    /\ treeHist[1] = treeCall
    /\ LET p == Split(treeCall[2])
       IN  /\ p \in DOMAIN treeHist[2]
           /\ \E c \in DOMAIN treeHist[2] :
                  /\ IsPrefix(p, c)
                  /\ treeHist[2][c] # treeHist[2][p]

\* the nodes on the segment chain of module_path, the root included
ChainNodes(module_path) ==
    { SubSeq(Split(module_path), 1, k) : k \in 0..Len(Split(module_path)) }

\* C24: insert(path) adds the nodes of the segment chain that were missing
\* and no other, each selected, keeps the flag of every node that was there,
\* and a second insert of the path changes nothing.
C24_InsertCreatesMissingSelected ==
    treeCall[1] = "insert" =>
        /\ DOMAIN tree = DOMAIN treePrev \cup ChainNodes(treeCall[2])
        /\ \A q \in DOMAIN tree :
               tree[q] = (IF q \in DOMAIN treePrev THEN treePrev[q] ELSE TRUE)
        /\ insert_module(tree, treeCall[2]) = tree

\* C24 witness: the insert added a node under a deselected node that was
\* already in the tree.
C24_Witness ==
    /\ treeCall[1] = "insert"
    /\ LET p == Split(treeCall[2])
       IN  /\ Len(p) = 2
           /\ p \notin DOMAIN treePrev
           /\ SubSeq(p, 1, 1) \in DOMAIN treePrev
           /\ ~tree[SubSeq(p, 1, 1)]
           /\ tree[p]

\* C24 witness of the repeated insert: the path inserted was in the tree,
\* deselected.
C24_WitnessPresent ==
    /\ treeCall[1] = "insert"
    /\ Split(treeCall[2]) \in DOMAIN treePrev
    /\ ~treePrev[Split(treeCall[2])]

\* the nodes on the segment chains of the targets of logs, the root included
TargetNodes(logs) ==
    UNION { ChainNodes(logs[i].target) : i \in 1..Len(logs) }

\* the entries a step has appended to app.logs
AppendedLogs == SubSeq(app'.logs, Len(app.logs) + 1, Len(app'.logs))

\* a step of AddLogs with new entries: the one operation that extends app.logs
\* and resets filter_run
AddLogsStep ==
    /\ filter_run' = "none"
    /\ app'.logs # app.logs
    /\ app' = add_logs(app, AppendedLogs)

\* a step of UpdateLogs
UpdateLogsStep ==
    /\ filter_run' = "full"
    /\ app' = update_logs(app, app'.logs)

\* C25: add_logs keeps every node of the module tree with its selected flag
\* and adds the nodes of the targets of the new entries, no other; update_logs
\* leaves a tree of the targets of the new list with every node selected;
\* both keep the active level set.
C25_AppendKeepsSelectionReplaceResets ==
    [][ /\ AddLogsStep =>
            /\ DOMAIN app'.module_tree =
                   DOMAIN app.module_tree \cup TargetNodes(AppendedLogs)
            /\ \A q \in DOMAIN app.module_tree :
                   app'.module_tree[q] = app.module_tree[q]
            /\ app'.log_level_filter = app.log_level_filter
        /\ UpdateLogsStep =>
            /\ DOMAIN app'.module_tree = {<<>>} \cup TargetNodes(app'.logs)
            /\ \A q \in DOMAIN app'.module_tree : app'.module_tree[q]
            /\ app'.log_level_filter = app.log_level_filter
      ]_vars

\* C25 witness: the latest operation was an append; the node of its last
\* entry is on the chain of no earlier entry, and a node of an earlier entry
\* is deselected.
C25_Witness ==
    /\ filter_run = "none"
    /\ Len(app.logs) = 2
    /\ Split(app.logs[2].target) \notin TargetNodes(SubSeq(app.logs, 1, 1))
    /\ ~app.module_tree[Split(app.logs[1].target)]
    /\ app.module_tree[Split(app.logs[2].target)]
    /\ app.log_level_filter # AllLevels

\* C26: add_logs keeps the cached filtered list as a prefix and appends to it
\* the new entries that pass the filter, in their order.
C26_AppendFiltersNewEntriesOnly ==
    [][ AddLogsStep =>
            /\ IsPrefix(app.filtered_logs, app'.filtered_logs)
            /\ app'.filtered_logs =
                   app.filtered_logs \o
                   SelectSeq(AppendedLogs, LAMBDA log : PassesFilter(app', log))
      ]_vars

\* C26 witness: the latest operation was an append whose last entry the filter
\* rejected by its level, after an entry that is in the filtered list.
C26_Witness ==
    /\ filter_run = "none"
    /\ Len(app.logs) = 2
    /\ app.filtered_logs = <<app.logs[1]>>
    /\ app.logs[2].level \notin app.log_level_filter
    /\ app.logs[1] # app.logs[2]

\* whether entries of target are hidden by the module tree of a: a node on
\* the chain of target is deselected and so is every node of the tree on the
\* chain below it
HiddenBy(a, target) ==
    \E p \in ChainNodes(target) \ {<<>>} :
        /\ p \in DOMAIN a.module_tree
        /\ \A q \in ChainNodes(target) :
               (IsPrefix(p, q) /\ q \in DOMAIN a.module_tree)
                   => ~a.module_tree[q]

\* C27: an entry whose target is hidden by the module tree is in the filtered
\* list after a step only when the step has selected a node of the tree on
\* the chain of its target.
C27_HiddenUntilSelectedAgain ==
    [][ \A i \in 1..Len(app'.filtered_logs) :
            LET target == app'.filtered_logs[i].target
            IN  HiddenBy(app, target) =>
                    \E q \in ChainNodes(target) :
                        /\ q \in DOMAIN app.module_tree
                        /\ q \in DOMAIN app'.module_tree
                        /\ ~app.module_tree[q]
                        /\ app'.module_tree[q]
      ]_vars

\* C28: under the event handler the two ends of the selection are present
\* exactly while the mode is TextSelection, in no other mode, and a step that
\* enters TextSelection sets both ends to the focus it found.
C28_SelectionIffTextSelection ==
    /\ [](/\ (app.mode = "TextSelection") <=> (app.selection_start # <<>>)
          /\ (app.mode = "TextSelection") <=> (app.selection_end # <<>>))
    /\ [][ (app.mode # "TextSelection" /\ app'.mode = "TextSelection") =>
               /\ app'.selection_start = <<app.current_log_line>>
               /\ app'.selection_end = <<app.current_log_line>>
               /\ app'.current_log_line = app.current_log_line ]_vars

\* C28 witness: TextSelection was entered on one entry and the focus has
\* moved to another.
C28_Witness ==
    /\ app.mode = "TextSelection"
    /\ app.selection_start # <<>>
    /\ app.selection_end # app.selection_start

\* the index a focus move by delta lands on, clamped to the filtered list
ClampedFocus(a, delta) ==
    Max(0, Min(a.current_log_line + delta, Len(a.filtered_logs) - 1))

\* what C29 asks of a focus move from a to a2
MovedBy(a, a2, delta) ==
    /\ a2.current_log_line = ClampedFocus(a, delta)
    /\ a2.auto_follow = (a2.current_log_line = Len(a.filtered_logs) - 1)

\* C29: from every reachable state with a non-empty filtered list,
\* next_log_entry and previous_log_entry move the focus by +1 and -1 clamped
\* to the list, and leave auto_follow true exactly when the focus is on the
\* last entry.
C29_MoveFocusClampsAndFollows ==
    (~panicked /\ app.filtered_logs # <<>>) =>
        /\ MovedBy(app, next_log_entry(app), 1)
        /\ MovedBy(app, previous_log_entry(app), -1)

\* C30: while the mode is TextSelection the end of the selection is the
\* focused entry, whatever moved the focus (a focus move, the jump to the
\* last entry after an append, the relocation by a viewport recompute), and
\* the start of the selection does not change.
C30_SelectionEndFollowsFocus ==
    /\ [](app.mode = "TextSelection" =>
              app.selection_end = <<app.current_log_line>>)
    /\ [][ (app.mode = "TextSelection" /\ app'.mode = "TextSelection") =>
               app'.selection_start = app.selection_start ]_vars

\* the results of the four scroll operations on a, for every row count
ScrollResults(a) ==
    UNION { { scroll_up(a, n), scroll_down(a, n), page_up(a, n),
              page_down(a, n) } : n \in 0..MaxHeight }

ScrolledTo(a, a2) ==
    [a EXCEPT !.log_scroll_position = a2.log_scroll_position,
              !.auto_follow = FALSE,
              !.last_action_was_focus_move = FALSE]

C32_ResizeClampsScroll ==
    (~panicked /\ app.filtered_logs # <<>>) =>
        \A visible_lines \in 1..MaxHeight :
            ~ResizePanics(app, visible_lines) =>
                update_scroll_position_with_height(app, visible_lines)
                        .log_scroll_position
                    <= SatSub(TotalDisplayLines(app), visible_lines)

\* whether a row of entry i of a is inside the band of visible_lines rows
\* that starts at the scroll position of a
EntryVisible(a, i, visible_lines) ==
    \E row \in get_entry_display_position(a, i)
                 .. (get_entry_display_position(a, i) + DisplayLines(a)[i + 1] - 1) :
        /\ a.log_scroll_position <= row
        /\ row < a.log_scroll_position + visible_lines

\* the distance by index between two entries
IndexDistance(i, j) == IF i > j THEN i - j ELSE j - i

\* whether the scroll policy applies to a: the list is not empty, the focus
\* is an entry of it and update_focus_visibility_with_lines takes its else
\* branch
UnderScrollPolicy(a) ==
    /\ a.filtered_logs # <<>>
    /\ a.current_log_line < Len(a.filtered_logs)
    /\ ~(/\ a.last_action_was_focus_move
         /\ a.mode \in {"LogNavigation", "TextSelection"})

\* C33: from every reachable state under the scroll policy, for every height
\* above two rows, update_scroll_position_with_height changes the focus only
\* when no row of the focused entry is in the visible band, and then to a
\* visible entry that no visible entry is nearer to the old focus by index;
\* with a row of the focused entry visible the focus is unchanged; beyond
\* the clamp to the maximum offset, log_scroll_position is left alone.
C33_ScrollPolicyRescuesFocus ==
    (~panicked /\ UnderScrollPolicy(app)) =>
        \A visible_lines \in 3..MaxHeight :
            LET max_scroll == SatSub(TotalDisplayLines(app), visible_lines)
                clamped == [app EXCEPT !.log_scroll_position =
                                           Min(app.log_scroll_position, max_scroll)]
                r == update_scroll_position_with_height(app, visible_lines)
                old == app.current_log_line
            IN  /\ r = [clamped EXCEPT !.current_log_line = r.current_log_line]
                /\ EntryVisible(clamped, old, visible_lines)
                       => r.current_log_line = old
                /\ r.current_log_line # old =>
                       /\ ~EntryVisible(clamped, old, visible_lines)
                       /\ EntryVisible(clamped, r.current_log_line, visible_lines)
                       /\ \A j \in 0..(Len(app.filtered_logs) - 1) :
                              EntryVisible(clamped, j, visible_lines) =>
                                  IndexDistance(r.current_log_line, old)
                                      <= IndexDistance(j, old)

\* C33 witness: under the scroll policy the focused entry is outside the band
\* of three rows and two other entries, at different distances from it, are
\* inside.
C33_Witness ==
    /\ ~panicked
    /\ UnderScrollPolicy(app)
    /\ app.log_scroll_position
           <= SatSub(TotalDisplayLines(app), 3)
    /\ ~EntryVisible(app, app.current_log_line, 3)
    /\ \E i, j \in 0..(Len(app.filtered_logs) - 1) :
           /\ EntryVisible(app, i, 3)
           /\ EntryVisible(app, j, 3)
           /\ IndexDistance(i, app.current_log_line)
                  < IndexDistance(j, app.current_log_line)
    /\ update_scroll_position_with_height(app, 3).current_log_line
           # app.current_log_line

C34_WitnessKept ==
    /\ ~app.auto_follow
    /\ Len(app.logs) = 2
    /\ Len(app.filtered_logs) = 1
    /\ app.logs[2].level \notin app.log_level_filter
    /\ app.filtered_logs = <<app.logs[1]>>

\* the fields C35 speaks of
ViewportFields(a) ==
    <<a.log_scroll_position, a.current_log_line, a.auto_follow,
      a.last_action_was_focus_move>>

\* C35: in every reachable state with an empty filtered list,
\* next_log_entry, previous_log_entry, the four scroll operations and
\* update_scroll_position_with_height leave log_scroll_position,
\* current_log_line, auto_follow and last_action_was_focus_move as they were.
C35_EmptyListNoOps ==
    (~panicked /\ app.filtered_logs = <<>>) =>
        \A a2 \in {next_log_entry(app), previous_log_entry(app)}
                      \cup ScrollResults(app)
                      \cup { update_scroll_position_with_height(app, n) :
                                 n \in 0..MaxHeight } :
            ViewportFields(a2) = ViewportFields(app)

\* C36: every entry of the filtered list has at least one display line, so
\* a non-empty filtered list has at least as many display lines as entries.
C36_EveryEntryHasARow ==
    /\ \A i \in 1..Len(app.filtered_logs) :
           calculate_display_lines(app.filtered_logs[i]) >= 1
    /\ app.filtered_logs # <<>> =>
           TotalDisplayLines(app) >= Len(app.filtered_logs)

\* a step of the receive branch: one line joins the pending queue
RecvStep == Len(pending_logs') > Len(pending_logs)

\* a step of the tick branch: a non-empty pending queue is emptied
TickStep == pending_logs # <<>> /\ pending_logs' = <<>>

\* C37: inside the loop a received line only joins the end of the pending
\* queue and leaves the App as it was; the App changes only on a tick, and a
\* tick applies the entries of the whole pending queue, parsed in arrival
\* order, and empties the queue.
C37_LinesWaitForTick ==
    [][/\ RecvStep => /\ chan # <<>>
                      /\ pending_logs' = Append(pending_logs, Head(chan))
                      /\ chan' = Tail(chan)
                      /\ app' = app
       /\ (mainPc = "loop" /\ app' # app) => TickStep
       /\ TickStep => /\ app' = add_logs(app, parse_logs_from_lines(pending_logs))
                      /\ handed'.raw = pending_logs]_vars

\* C37 witness: a tick has applied a queue of two received lines, both of
\* which are entries of the list now.
C37_Witness ==
    /\ mainPc = "loop"
    /\ Len(handed.raw) = 2
    /\ pending_logs = <<>>
    /\ Len(handed.entries) = 2
    /\ Len(app.logs) >= 2
    /\ SubSeq(app.logs, Len(app.logs) - 1, Len(app.logs)) = handed.entries

\* C38: in file mode nothing is lost across the hand-over: the tailer reads
\* only from the length it remembered, so once it has remembered it every
\* entry of the file below that length is in the entry list already.
C38_HandOverLosesNothing ==
    (input = "file" /\ watchPc \in {"wait", "stat"} /\ ~truncated) =>
        IsPrefix(parse_logs_from_content(SubSeq(file, 1, base)), app.logs)

\* C39: every raw line the tailer sends is one complete source line: once
\* the last line of the (never truncated) file is ended, each line sent is
\* one of the file's lines, also when a line was appended in two writes.
C39_SentLinesAreWholeLines ==
    (/\ input = "file"
     /\ ~truncated
     /\ (file = <<>> \/ Last(file) = "\n"))
    => \A i \in 1..Len(sent) : \E j \in 1..Len(StrLines(file)) :
           sent[i] = StrLines(file)[j]

\* the sequence t ends with the sequence s
IsSuffix(s, t) ==
    /\ Len(s) <= Len(t)
    /\ SubSeq(t, Len(t) - Len(s) + 1, Len(t)) = s

\* C40: after a truncation every line of the new content is delivered
\* exactly once: when the tailer waits and no notification is outstanding,
\* the lines sent last are the non-blank lines of the file as it is now.
C40_NewContentDeliveredOnce ==
    (/\ input = "file"
     /\ truncated
     /\ watchPc = "wait"
     /\ notes = 0)
    => IsSuffix(NonBlankLines(file), sent)

====
